---- MODULE Spec2Model ----
(***************************************************************************)
(* A model of the December backend's conversational turn: the session      *)
(* store and the two-phase orchestration of services/llm.ts, the           *)
(* load_examples tool protocol of services/toolProcessor.ts, the dec-*     *)
(* command protocol and executor of services/responseProcessor.ts and the  *)
(* document loading of services/contextLoader.ts.                          *)
(*                                                                         *)
(* A text is a sequence of tokens.  A token is one lexical unit the        *)
(* regular expressions of the code distinguish: a word of prose, a run of  *)
(* whitespace, a comma, or one complete tag.  The regular expressions are  *)
(* modelled by scanners over tokens that follow the JavaScript matching    *)
(* rules (leftmost match, lazy groups with backtracking, global scanning   *)
(* resumed after each match).                                              *)
(***************************************************************************)
EXTENDS Naturals, Sequences, FiniteSets, TLC

(***************************************************************************)
(* Bounds of the model.                                                    *)
(***************************************************************************)
MaxTurns == 2
MaxClock == 2
MaxLen == 3
MaxPieces == 2
MaxWords == 2
MaxSessions == 3

(***************************************************************************)
(* Tokens.                                                                 *)
(***************************************************************************)
Tok(k, a, b) == [k |-> k, a |-> a, b |-> b]
Txt(w) == Tok("text", w, "")
Ws == Tok("ws", "", "")
Comma == Tok("comma", "", "")
\* a tag without attributes, opening (k) or closing (/k)
Tag(k) == Tok(k, "", "")
WriteOpen(p) == Tok("dec-write", p, "")
RenameTag(p, q) == Tok("dec-rename", p, q)
DeleteTag(p) == Tok("dec-delete", p, "")
DependencyTag(p) == Tok("dec-add-dependency", p, "")

\* two pieces of text that make up an opening write tag when nothing stands
\* between them: '<dec-wr' and 'ite file_path="p">'
WriteOpenHead == Tok("text", "<dec-wr", "")
WriteOpenTail(p) == Tok("text", "ite file_path=", p)

\* the two pieces of a tag without attributes cut in two, as '<dec-err' and
\* 'or>'
TagHead(k) == Tok("text", "<", k)
TagTail(k) == Tok("text", ">", k)

\* the tokens of a text after a replacement: pieces of text that have come
\* to stand next to each other and make up a tag are that tag
RECURSIVE Lex(_)
Lex(s) ==
  IF Len(s) < 2 THEN s
  ELSE IF s[1] = WriteOpenHead /\ s[2].k = "text" /\ s[2].a = "ite file_path="
       THEN <<WriteOpen(s[2].b)>> \o Lex(SubSeq(s, 3, Len(s)))
       ELSE IF /\ s[1].k = "text" /\ s[1].a = "<"
               /\ s[2].k = "text" /\ s[2].a = ">" /\ s[2].b = s[1].b
            THEN <<Tag(s[1].b)>> \o Lex(SubSeq(s, 3, Len(s)))
            ELSE <<s[1]>> \o Lex(Tail(s))

KindAt(s, p) == IF p >= 1 /\ p <= Len(s) THEN s[p].k ELSE "eof"

MinOf(S) == CHOOSE x \in S : \A y \in S : x <= y

RECURSIVE Concat(_)
Concat(ss) == IF ss = <<>> THEN <<>> ELSE Head(ss) \o Concat(Tail(ss))

(***************************************************************************)
(* String.prototype.trim: leading and trailing whitespace is removed.      *)
(***************************************************************************)
RECURSIVE TrimLeft(_)
TrimLeft(s) == IF s # <<>> /\ Head(s).k = "ws" THEN TrimLeft(Tail(s)) ELSE s

RECURSIVE TrimRight(_)
TrimRight(s) ==
  IF s # <<>> /\ s[Len(s)].k = "ws" THEN TrimRight(SubSeq(s, 1, Len(s) - 1)) ELSE s

Trim(s) == TrimRight(TrimLeft(s))

\* \s* at position p: the first position at or after p that is not whitespace
RECURSIVE SkipWs(_, _)
SkipWs(s, p) == IF KindAt(s, p) = "ws" THEN SkipWs(s, p + 1) ELSE p

\* the first position at or after p holding a token of kind k, 0 when none
RECURSIVE FirstAt(_, _, _)
FirstAt(s, p, k) ==
  IF p > Len(s) THEN 0 ELSE IF s[p].k = k THEN p ELSE FirstAt(s, p + 1, k)

(***************************************************************************)
(* The dec-* command protocol (responseProcessor).                         *)
(***************************************************************************)
Command(type, filePath, hasContent, content, oldPath, newPath, package) ==
  [type |-> type, filePath |-> filePath, hasContent |-> hasContent,
   content |-> content, oldPath |-> oldPath, newPath |-> newPath,
   package |-> package]

WriteCommand(p, c) == Command("write", p, TRUE, c, "", "", "")
RenameCommand(p, q) == Command("rename", "", FALSE, <<>>, p, q, "")
DeleteCommand(p) == Command("delete", p, FALSE, <<>>, "", "", "")
DependencyCommand(p) == Command("add-dependency", "", FALSE, <<>>, "", "", p)

\* the matches of an <open ...>body</close> expression with a lazy body,
\* scanned globally from position p: a sequence of [from, to]
RECURSIVE PairMatches(_, _, _, _)
PairMatches(s, p, open, close) ==
  IF p > Len(s) THEN <<>>
  ELSE IF s[p].k = open /\ FirstAt(s, p + 1, close) # 0
       THEN LET c == FirstAt(s, p + 1, close)
            IN  <<[from |-> p, to |-> c]>> \o PairMatches(s, c + 1, open, close)
       ELSE PairMatches(s, p + 1, open, close)

\* the matches of a self-closing element: the positions of its tokens
RECURSIVE SingleMatches(_, _, _)
SingleMatches(s, p, kind) ==
  IF p > Len(s) THEN <<>>
  ELSE IF s[p].k = kind
       THEN <<[from |-> p, to |-> p]>> \o SingleMatches(s, p + 1, kind)
       ELSE SingleMatches(s, p + 1, kind)

writeRegex(s) == PairMatches(s, 1, "dec-write", "/dec-write")
renameRegex(s) == SingleMatches(s, 1, "dec-rename")
deleteRegex(s) == SingleMatches(s, 1, "dec-delete")
depRegex(s) == SingleMatches(s, 1, "dec-add-dependency")

\* String.prototype.replace with a global expression: every match is
\* replaced by its body (keep) or by nothing
RECURSIVE ReplacePairs(_, _, _, _, _)
ReplacePairs(s, p, open, close, keep) ==
  IF p > Len(s) THEN <<>>
  ELSE IF s[p].k = open /\ FirstAt(s, p + 1, close) # 0
       THEN LET c == FirstAt(s, p + 1, close)
            IN  (IF keep THEN SubSeq(s, p + 1, c - 1) ELSE <<>>)
                  \o ReplacePairs(s, c + 1, open, close, keep)
       ELSE <<s[p]>> \o ReplacePairs(s, p + 1, open, close, keep)

RECURSIVE ReplaceSingles(_, _, _)
ReplaceSingles(s, p, kind) ==
  IF p > Len(s) THEN <<>>
  ELSE IF s[p].k = kind
       THEN ReplaceSingles(s, p + 1, kind)
       ELSE <<s[p]>> \o ReplaceSingles(s, p + 1, kind)

\* the command of one match, built as the four scanning loops build it
CommandOfMatch(s, m) ==
  LET t == s[m.from]
  IN  CASE t.k = "dec-write" ->
             WriteCommand(t.a, Trim(SubSeq(s, m.from + 1, m.to - 1)))
        [] t.k = "dec-rename" -> RenameCommand(t.a, t.b)
        [] t.k = "dec-delete" -> DeleteCommand(t.a)
        [] t.k = "dec-add-dependency" -> DependencyCommand(t.a)

CommandsOfMatches(s, ms) == [i \in 1..Len(ms) |-> CommandOfMatch(s, ms[i])]

\* the four loops run one after the other, each over the whole response
ParsedMatches(s) == writeRegex(s) \o renameRegex(s) \o deleteRegex(s) \o depRegex(s)

\* the chain of replacements as it would be without the final trim()
CleanDecemberTagsNoTrim(s) ==
  LET r1 == Lex(ReplacePairs(s, 1, "dec-write", "/dec-write", FALSE))
      r2 == Lex(ReplaceSingles(r1, 1, "dec-rename"))
      r3 == Lex(ReplaceSingles(r2, 1, "dec-delete"))
      r4 == Lex(ReplaceSingles(r3, 1, "dec-add-dependency"))
      r5 == Lex(ReplacePairs(r4, 1, "dec-code", "/dec-code", TRUE))
      r6 == Lex(ReplacePairs(r5, 1, "dec-thinking", "/dec-thinking", FALSE))
      r7 == Lex(ReplacePairs(r6, 1, "dec-error", "/dec-error", TRUE))
  IN  Lex(ReplacePairs(r7, 1, "dec-success", "/dec-success", TRUE))

\* every replacement works on the characters the one before it left
CleanDecemberTags(s) ==
  LET r1 == Lex(ReplacePairs(s, 1, "dec-write", "/dec-write", FALSE))
      r2 == Lex(ReplaceSingles(r1, 1, "dec-rename"))
      r3 == Lex(ReplaceSingles(r2, 1, "dec-delete"))
      r4 == Lex(ReplaceSingles(r3, 1, "dec-add-dependency"))
      r5 == Lex(ReplacePairs(r4, 1, "dec-code", "/dec-code", TRUE))
      r6 == Lex(ReplacePairs(r5, 1, "dec-thinking", "/dec-thinking", FALSE))
      r7 == Lex(ReplacePairs(r6, 1, "dec-error", "/dec-error", TRUE))
      r8 == Lex(ReplacePairs(r7, 1, "dec-success", "/dec-success", TRUE))
  IN  Trim(r8)

parseDecemberTags(response) ==
  LET commands == CommandsOfMatches(response, ParsedMatches(response))
  IN  [cleanedContent |-> CleanDecemberTags(response),
       commands |-> commands,
       hasCommands |-> Len(commands) > 0]

(***************************************************************************)
(* The command executor (responseProcessor.executeDecemberCommands).        *)
(* ExecuteOne is the body of the loop for one command: the error it        *)
(* records, if any, and the call it makes on the container, if any. throws *)
(* says whether fileService.writeFile raises when it is called.            *)
(***************************************************************************)
WriteFileCall(command, throws) ==
  [op |-> "writeFile", filePath |-> command.filePath,
   content |-> command.content, ok |-> ~throws]

\* the switch as it would be with delete carried out without a report
ExecuteOneSilentDelete(command, throws) ==
  CASE command.type = "write" ->
         [errors |-> IF throws THEN <<"Error executing write command">> ELSE <<>>,
          calls |-> <<WriteFileCall(command, throws)>>]
    [] command.type = "rename" ->
         [errors |-> <<"Rename operation not yet implemented">>, calls |-> <<>>]
    [] command.type = "delete" -> [errors |-> <<>>, calls |-> <<>>]
    [] OTHER ->
         [errors |-> <<"Add dependency operation not yet implemented">>,
          calls |-> <<>>]

ExecuteOne(command, throws) ==
  CASE command.type = "write" ->
         IF command.filePath # "" /\ command.hasContent
         THEN [errors |-> IF throws THEN <<"Error executing write command">>
                                    ELSE <<>>,
               calls |-> <<WriteFileCall(command, throws)>>]
         ELSE [errors |-> <<"Invalid write command: missing filePath or content">>,
               calls |-> <<>>]
    [] command.type = "rename" ->
         [errors |-> IF command.oldPath # "" /\ command.newPath # ""
                     THEN <<"Rename operation not yet implemented">>
                     ELSE <<"Invalid rename command: missing oldPath or newPath">>,
          calls |-> <<>>]
    [] command.type = "delete" ->
         [errors |-> IF command.filePath # ""
                     THEN <<"Delete operation not yet implemented">>
                     ELSE <<"Invalid delete command: missing filePath">>,
          calls |-> <<>>]
    [] command.type = "add-dependency" ->
         [errors |-> IF command.package # ""
                     THEN <<"Add dependency operation not yet implemented">>
                     ELSE <<"Invalid add-dependency command: missing package">>,
          calls |-> <<>>]
    [] OTHER -> [errors |-> <<"Unknown command type">>, calls |-> <<>>]

\* the whole loop; throwing is the set of list positions whose writeFile raises
RECURSIVE ExecuteFrom(_, _, _)
ExecuteFrom(commands, i, throwing) ==
  IF i > Len(commands)
  THEN [errors |-> <<>>, attempted |-> <<>>, calls |-> <<>>]
  ELSE LET one == ExecuteOne(commands[i], i \in throwing)
           rest == ExecuteFrom(commands, i + 1, throwing)
       IN  [errors |-> one.errors \o rest.errors,
            attempted |-> <<commands[i]>> \o rest.attempted,
            calls |-> one.calls \o rest.calls]

executeDecemberCommands(commands, throwing) ==
  LET run == ExecuteFrom(commands, 1, throwing)
  IN  [success |-> Len(run.errors) = 0, errors |-> run.errors,
       attempted |-> run.attempted, calls |-> run.calls]

processDecemberResponse(response, throwing) ==
  LET parsed == parseDecemberTags(response)
      execution == executeDecemberCommands(parsed.commands, throwing)
  IN  IF ~parsed.hasCommands
      THEN [cleanedResponse |-> response, commandsExecuted |-> 0,
            errors |-> <<>>, attempted |-> <<>>, calls |-> <<>>]
      ELSE [cleanedResponse |-> parsed.cleanedContent,
            commandsExecuted |-> Len(parsed.commands),
            errors |-> execution.errors, attempted |-> execution.attempted,
            calls |-> execution.calls]

\* the positions of the commands that reach fileService.writeFile
WritePositions(commands) ==
  {i \in 1..Len(commands) :
     commands[i].type = "write" /\ commands[i].filePath # "" /\ commands[i].hasContent}

(***************************************************************************)
(* The document store (contextLoader).  The instruction directories hold   *)
(* one example document and one context document; whether the core         *)
(* instruction file can be read is decided in the initial state.           *)
(***************************************************************************)
ExampleFiles == {"foo.md"}
ContextFiles == {"ctx.md"}
CoreText == <<Txt("core")>>

\* fs.existsSync of a requested name in a directory
FileExists(dir, name) == Len(name) = 1 /\ name[1].k = "text" /\ name[1].a \in dir

Heading(name) == Tok("heading", name[1].a, "")
Document(dir, name) == Tok("doc", name[1].a, dir)

RECURSIVE LoadFiles(_, _, _)
LoadFiles(dirName, dir, filenames) ==
  IF filenames = <<>> THEN <<>>
  ELSE (IF FileExists(dir, Head(filenames))
        THEN <<Ws, Heading(Head(filenames)), Ws, Document(dirName, Head(filenames))>>
        ELSE <<>>)
       \o LoadFiles(dirName, dir, Tail(filenames))

loadExamples(filenames) == LoadFiles("examples", ExampleFiles, filenames)
loadContext(filenames) == LoadFiles("context", ContextFiles, filenames)

assemblePromptWithExamples(core, exampleFiles, contextFiles) ==
  LET examplesContent == loadExamples(exampleFiles)
      contextContent == loadContext(contextFiles)
      p1 == IF Len(exampleFiles) > 0 /\ examplesContent # <<>>
            THEN core \o <<Ws, Txt("# REQUESTED EXAMPLES")>> \o examplesContent
            ELSE core
  IN  IF Len(contextFiles) > 0 /\ contextContent # <<>>
      THEN p1 \o <<Ws, Txt("# REQUESTED CONTEXT")>> \o contextContent
      ELSE p1

(***************************************************************************)
(* The context selector (contextLoader.analyzeUserRequest).  An utterance  *)
(* and a trigger are sequences of characters.                              *)
(***************************************************************************)
Name(w) == <<Txt(w)>>

UpperCase == <<"A", "B", "C", "D", "E", "F", "G", "H", "I", "J", "K", "L", "M", "N", "O", "P", "Q", "R", "S", "T", "U", "V", "W", "X", "Y", "Z">>
LowerCase == <<"a", "b", "c", "d", "e", "f", "g", "h", "i", "j", "k", "l", "m", "n", "o", "p", "q", "r", "s", "t", "u", "v", "w", "x", "y", "z">>

\* String.prototype.toLowerCase
toLowerCase(s) ==
  [i \in 1..Len(s) |->
     IF \E j \in 1..Len(UpperCase) : UpperCase[j] = s[i]
     THEN LowerCase[CHOOSE j \in 1..Len(UpperCase) : UpperCase[j] = s[i]]
     ELSE s[i]]

\* String.prototype.includes
includes(message, trigger) ==
  \E i \in 0..(Len(message) - Len(trigger)) :
    SubSeq(message, i + 1, i + Len(trigger)) = trigger

exampleTriggers ==
  <<[filename |-> "refactoring_examples.md",
     triggers |->
       <<<<"r", "e", "f", "a", "c", "t", "o", "r">>,
         <<"r", "e", "o", "r", "g", "a", "n", "i", "z", "e">>,
         <<"r", "e", "s", "t", "r", "u", "c", "t", "u", "r", "e">>,
         <<"e", "x", "t", "r", "a", "c", "t">>,
         <<"s", "p", "l", "i", "t">>,
         <<"b", "r", "e", "a", "k", " ", "d", "o", "w", "n">>,
         <<"m", "o", "v", "e", " ", "f", "u", "n", "c", "t", "i", "o", "n">>,
         <<"s", "e", "p", "a", "r", "a", "t", "e">>,
         <<"m", "o", "d", "u", "l", "a", "r", "i", "z", "e">>,
         <<"c", "l", "e", "a", "n", " ", "u", "p", " ", "c", "o", "d", "e">> >>],
    [filename |-> "dependency_management_examples.md",
     triggers |->
       <<<<"i", "n", "s", "t", "a", "l", "l">>,
         <<"p", "a", "c", "k", "a", "g", "e">>,
         <<"d", "e", "p", "e", "n", "d", "e", "n", "c", "y">>,
         <<"l", "i", "b", "r", "a", "r", "y">>,
         <<"n", "p", "m">>,
         <<"y", "a", "r", "n">>,
         <<"a", "d", "d", " ", "p", "a", "c", "k", "a", "g", "e">>,
         <<"u", "p", "d", "a", "t", "e", " ", "p", "a", "c", "k", "a", "g", "e">>,
         <<"v", "e", "r", "s", "i", "o", "n">>,
         <<"i", "m", "p", "o", "r", "t">>,
         <<"m", "o", "d", "u", "l", "e">> >>],
    [filename |-> "file_operations_examples.md",
     triggers |->
       <<<<"c", "r", "e", "a", "t", "e", " ", "f", "i", "l", "e">>,
         <<"d", "e", "l", "e", "t", "e", " ", "f", "i", "l", "e">>,
         <<"r", "e", "n", "a", "m", "e", " ", "f", "i", "l", "e">>,
         <<"m", "o", "v", "e", " ", "f", "i", "l", "e">>,
         <<"f", "i", "l", "e", " ", "s", "t", "r", "u", "c", "t", "u", "r", "e">>,
         <<"d", "i", "r", "e", "c", "t", "o", "r", "y">>,
         <<"f", "o", "l", "d", "e", "r">>,
         <<"o", "r", "g", "a", "n", "i", "z", "e", " ", "f", "i", "l", "e", "s">>,
         <<"f", "i", "l", "e", " ", "e", "x", "t", "e", "n", "s", "i", "o", "n">> >>],
    [filename |-> "component_creation_examples.md",
     triggers |->
       <<<<"c", "o", "m", "p", "o", "n", "e", "n", "t">>,
         <<"c", "r", "e", "a", "t", "e", " ", "c", "o", "m", "p", "o", "n", "e", "n", "t">>,
         <<"n", "e", "w", " ", "c", "o", "m", "p", "o", "n", "e", "n", "t">>,
         <<"u", "i", " ", "c", "o", "m", "p", "o", "n", "e", "n", "t">>,
         <<"r", "e", "a", "c", "t", " ", "c", "o", "m", "p", "o", "n", "e", "n", "t">>,
         <<"b", "u", "t", "t", "o", "n">>,
         <<"f", "o", "r", "m">>,
         <<"m", "o", "d", "a", "l">>,
         <<"c", "a", "r", "d">>,
         <<"l", "a", "y", "o", "u", "t">> >>],
    [filename |-> "error_handling_examples.md",
     triggers |->
       <<<<"e", "r", "r", "o", "r">>,
         <<"b", "u", "g">>,
         <<"f", "i", "x">>,
         <<"d", "e", "b", "u", "g">>,
         <<"e", "x", "c", "e", "p", "t", "i", "o", "n">>,
         <<"t", "r", "y", " ", "c", "a", "t", "c", "h">>,
         <<"v", "a", "l", "i", "d", "a", "t", "i", "o", "n">>,
         <<"e", "r", "r", "o", "r", " ", "b", "o", "u", "n", "d", "a", "r", "y">>,
         <<"h", "a", "n", "d", "l", "e", " ", "e", "r", "r", "o", "r">>,
         <<"e", "r", "r", "o", "r", " ", "m", "e", "s", "s", "a", "g", "e">> >>],
    [filename |-> "state_management_examples.md",
     triggers |->
       <<<<"s", "t", "a", "t", "e">>,
         <<"u", "s", "e", "S", "t", "a", "t", "e">>,
         <<"c", "o", "n", "t", "e", "x", "t">>,
         <<"r", "e", "d", "u", "x">>,
         <<"z", "u", "s", "t", "a", "n", "d">>,
         <<"r", "e", "a", "c", "t", " ", "q", "u", "e", "r", "y">>,
         <<"d", "a", "t", "a", " ", "f", "l", "o", "w">>,
         <<"g", "l", "o", "b", "a", "l", " ", "s", "t", "a", "t", "e">>,
         <<"l", "o", "c", "a", "l", " ", "s", "t", "a", "t", "e">>,
         <<"s", "t", "a", "t", "e", " ", "u", "p", "d", "a", "t", "e">> >>],
    [filename |-> "ui_implementation_examples.md",
     triggers |->
       <<<<"s", "t", "y", "l", "e">>,
         <<"c", "s", "s">>,
         <<"t", "a", "i", "l", "w", "i", "n", "d">>,
         <<"d", "e", "s", "i", "g", "n">>,
         <<"r", "e", "s", "p", "o", "n", "s", "i", "v", "e">>,
         <<"l", "a", "y", "o", "u", "t">>,
         <<"a", "n", "i", "m", "a", "t", "i", "o", "n">>,
         <<"t", "h", "e", "m", "e">>,
         <<"c", "o", "l", "o", "r">>,
         <<"s", "p", "a", "c", "i", "n", "g">>,
         <<"t", "y", "p", "o", "g", "r", "a", "p", "h", "y">> >>],
    [filename |-> "nextjs_examples.md",
     triggers |->
       <<<<"n", "e", "x", "t", ".", "j", "s">>,
         <<"n", "e", "x", "t", "j", "s">>,
         <<"a", "p", "p", " ", "r", "o", "u", "t", "e", "r">>,
         <<"r", "o", "u", "t", "i", "n", "g">>,
         <<"a", "p", "i", " ", "r", "o", "u", "t", "e">>,
         <<"s", "e", "r", "v", "e", "r", " ", "c", "o", "m", "p", "o", "n", "e", "n", "t">>,
         <<"c", "l", "i", "e", "n", "t", " ", "c", "o", "m", "p", "o", "n", "e", "n", "t">>,
         <<"s", "s", "r">>,
         <<"s", "s", "g">>,
         <<"i", "s", "r">>,
         <<"m", "e", "t", "a", "d", "a", "t", "a">>,
         <<"d", "y", "n", "a", "m", "i", "c", " ", "r", "o", "u", "t", "e">> >>] >>

contextTriggers ==
  <<[filename |-> "shadcn_documentation.md",
     triggers |->
       <<<<"s", "h", "a", "d", "c", "n">>,
         <<"u", "i", " ", "c", "o", "m", "p", "o", "n", "e", "n", "t">>,
         <<"b", "u", "t", "t", "o", "n">>,
         <<"c", "a", "r", "d">>,
         <<"d", "i", "a", "l", "o", "g">>,
         <<"f", "o", "r", "m">>,
         <<"i", "n", "p", "u", "t">>,
         <<"s", "e", "l", "e", "c", "t">>,
         <<"a", "c", "c", "o", "r", "d", "i", "o", "n">>,
         <<"a", "l", "e", "r", "t">>,
         <<"b", "a", "d", "g", "e">>,
         <<"s", "i", "d", "e", "b", "a", "r">> >>],
    [filename |-> "common_errors.md",
     triggers |->
       <<<<"e", "r", "r", "o", "r">>,
         <<"b", "u", "g">>,
         <<"i", "s", "s", "u", "e">>,
         <<"p", "r", "o", "b", "l", "e", "m">>,
         <<"f", "i", "x">>,
         <<"d", "e", "b", "u", "g">>,
         <<"t", "r", "o", "u", "b", "l", "e", "s", "h", "o", "o", "t">>,
         <<"n", "o", "t", " ", "w", "o", "r", "k", "i", "n", "g">>,
         <<"b", "r", "o", "k", "e", "n">>,
         <<"f", "a", "i", "l", "e", "d">>,
         <<"e", "x", "c", "e", "p", "t", "i", "o", "n">> >>],
    [filename |-> "package_information.md",
     triggers |->
       <<<<"p", "a", "c", "k", "a", "g", "e">>,
         <<"d", "e", "p", "e", "n", "d", "e", "n", "c", "y">>,
         <<"l", "i", "b", "r", "a", "r", "y">>,
         <<"i", "n", "s", "t", "a", "l", "l">>,
         <<"v", "e", "r", "s", "i", "o", "n">>,
         <<"n", "p", "m">>,
         <<"y", "a", "r", "n">>,
         <<"i", "m", "p", "o", "r", "t">>,
         <<"m", "o", "d", "u", "l", "e">>,
         <<"a", "v", "a", "i", "l", "a", "b", "l", "e", " ", "p", "a", "c", "k", "a", "g", "e", "s">> >>],
    [filename |-> "project_structure.md",
     triggers |->
       <<<<"s", "t", "r", "u", "c", "t", "u", "r", "e">>,
         <<"o", "r", "g", "a", "n", "i", "z", "a", "t", "i", "o", "n">>,
         <<"d", "i", "r", "e", "c", "t", "o", "r", "y">>,
         <<"f", "o", "l", "d", "e", "r">>,
         <<"f", "i", "l", "e", " ", "s", "t", "r", "u", "c", "t", "u", "r", "e">>,
         <<"o", "r", "g", "a", "n", "i", "z", "e">>,
         <<"a", "r", "c", "h", "i", "t", "e", "c", "t", "u", "r", "e">>,
         <<"f", "i", "l", "e", " ", "p", "e", "r", "m", "i", "s", "s", "i", "o", "n", "s">>,
         <<"a", "l", "l", "o", "w", "e", "d", " ", "f", "i", "l", "e", "s">> >>] >>

\* triggers.some(trigger => message.includes(trigger))
SomeTrigger(triggers, message) ==
  \E i \in 1..Len(triggers) : includes(message, triggers[i])

\* the loop over the entries of a table
RECURSIVE SelectedFiles(_, _)
SelectedFiles(table, message) ==
  IF table = <<>> THEN <<>>
  ELSE (IF SomeTrigger(Head(table).triggers, message)
        THEN <<Name(Head(table).filename)>> ELSE <<>>)
       \o SelectedFiles(Tail(table), message)

\* the push as it would be without the test before it
PushAlways(list, name) == Append(list, name)

\* if (!list.includes(name)) list.push(name)
PushIfAbsent(list, name) ==
  IF \E i \in 1..Len(list) : list[i] = name THEN list ELSE Append(list, name)

ForcedCommonErrors(message, context) ==
  IF \/ includes(message, <<"e", "r", "r", "o", "r">>)
     \/ includes(message, <<"b", "u", "g">>)
     \/ includes(message, <<"i", "s", "s", "u", "e">>)
  THEN PushIfAbsent(context, Name("common_errors.md"))
  ELSE context

\* the rule as it would be if it set the list instead of extending it
ForcedShadcnReplacing(message, context) ==
  IF \/ includes(message, <<"c", "o", "m", "p", "o", "n", "e", "n", "t">>)
     \/ includes(message, <<"u", "i">>)
     \/ includes(message, <<"b", "u", "t", "t", "o", "n">>)
  THEN <<Name("shadcn_documentation.md")>>
  ELSE context

ForcedShadcn(message, context) ==
  IF \/ includes(message, <<"c", "o", "m", "p", "o", "n", "e", "n", "t">>)
     \/ includes(message, <<"u", "i">>)
     \/ includes(message, <<"b", "u", "t", "t", "o", "n">>)
  THEN PushIfAbsent(context, Name("shadcn_documentation.md"))
  ELSE context

analyzeUserRequest(userMessage) ==
  LET message == toLowerCase(userMessage)
  IN  [examples |-> SelectedFiles(exampleTriggers, message),
       context |-> ForcedShadcn(message,
                     ForcedCommonErrors(message,
                       SelectedFiles(contextTriggers, message)))]

(***************************************************************************)
(* The load_examples tool protocol (toolProcessor).                        *)
(***************************************************************************)
NoMatch == [ok |-> FALSE, to |-> 0, examples |-> <<>>, context |-> <<>>]

\* (?:\s*<context>(.*?)</context>)?\s*</load_examples> tried at position p
ToolTail(s, p) ==
  LET q == SkipWs(s, p)
      xs == {x \in (q + 1)..Len(s) :
               s[x].k = "/context" /\ KindAt(s, SkipWs(s, x + 1)) = "/load_examples"}
  IN  IF KindAt(s, q) = "context"
      THEN IF xs = {} THEN NoMatch
           ELSE [ok |-> TRUE, to |-> SkipWs(s, MinOf(xs) + 1), examples |-> <<>>,
                 context |-> SubSeq(s, q + 1, MinOf(xs) - 1)]
      ELSE IF KindAt(s, q) = "/load_examples"
           THEN [ok |-> TRUE, to |-> q, examples |-> <<>>, context |-> <<>>]
           ELSE NoMatch

\* the whole expression tried at position p: the lazy examples body is the
\* shortest one after which the rest of the expression matches
ToolMatchAt(s, p) ==
  LET j == SkipWs(s, p + 1)
      es == {e \in (j + 1)..Len(s) : s[e].k = "/examples" /\ ToolTail(s, e + 1).ok}
      e1 == MinOf(es)
      tail == ToolTail(s, e1 + 1)
  IN  IF KindAt(s, p) # "load_examples" \/ KindAt(s, j) # "examples" \/ es = {}
      THEN NoMatch
      ELSE [ok |-> TRUE, to |-> tail.to,
            examples |-> SubSeq(s, j + 1, e1 - 1),
            context |-> tail.context]

RECURSIVE loadExamplesRegex(_, _)
loadExamplesRegex(s, p) ==
  IF p > Len(s) THEN <<>>
  ELSE LET match == ToolMatchAt(s, p)
       IN  IF match.ok
           THEN <<match @@ [from |-> p]>> \o loadExamplesRegex(s, match.to + 1)
           ELSE loadExamplesRegex(s, p + 1)

\* split(','): the pieces between the commas
RECURSIVE SplitComma(_, _, _)
SplitComma(s, p, piece) ==
  IF p > Len(s) THEN <<piece>>
  ELSE IF s[p].k = "comma"
       THEN <<piece>> \o SplitComma(s, p + 1, <<>>)
       ELSE SplitComma(s, p + 1, Append(piece, s[p]))

\* the list as it would be without the filter
NameListUnfiltered(body) ==
  LET pieces == SplitComma(Trim(body), 1, <<>>)
  IN  [i \in 1..Len(pieces) |-> Trim(pieces[i])]

\* str.trim().split(',').map(trim).filter(non-empty)
NameList(body) ==
  LET pieces == SplitComma(Trim(body), 1, <<>>)
      trimmed == [i \in 1..Len(pieces) |-> Trim(pieces[i])]
  IN  SelectSeq(trimmed, LAMBDA n : Len(n) > 0)

ToolCall(examples, context) ==
  [type |-> "load_examples", examples |-> examples, context |-> context]

\* the loop body as it would be if a context list alone made a tool call
RECURSIVE ToolCallsOfMatchesAnyList(_)
ToolCallsOfMatchesAnyList(ms) ==
  IF ms = <<>> THEN <<>>
  ELSE (IF Len(NameList(Head(ms).examples)) > 0 \/ Len(NameList(Head(ms).context)) > 0
        THEN <<ToolCall(NameList(Head(ms).examples), NameList(Head(ms).context))>>
        ELSE <<>>)
       \o ToolCallsOfMatchesAnyList(Tail(ms))

RECURSIVE ToolCallsOfMatches(_)
ToolCallsOfMatches(ms) ==
  IF ms = <<>> THEN <<>>
  ELSE (IF Len(NameList(Head(ms).examples)) > 0
        THEN <<ToolCall(NameList(Head(ms).examples), NameList(Head(ms).context))>>
        ELSE <<>>)
       \o ToolCallsOfMatches(Tail(ms))

parseToolCalls(assistantResponse) ==
  ToolCallsOfMatches(loadExamplesRegex(assistantResponse, 1))

\* the result as it would be if a requested document that is missing were an
\* error
executeToolCallStrict(core, toolCall) ==
  IF /\ toolCall.type = "load_examples"
     /\ \A i \in 1..Len(toolCall.examples) : FileExists(ExampleFiles, toolCall.examples[i])
     /\ \A i \in 1..Len(toolCall.context) : FileExists(ContextFiles, toolCall.context[i])
  THEN [success |-> TRUE, hasContent |-> TRUE,
        content |-> assemblePromptWithExamples(core, toolCall.examples, toolCall.context),
        hasError |-> FALSE, error |-> ""]
  ELSE [success |-> FALSE, hasContent |-> FALSE, content |-> <<>>,
        hasError |-> TRUE, error |-> "Document not found"]

\* a ToolResult: hasContent and hasError say which of its optional fields are
\* set.  Nothing in the try block raises for a tool call of the declared type
\* (the loaders catch their own errors), so the catch block returns for none.
executeToolCall(core, toolCall) ==
  IF toolCall.type = "load_examples"
  THEN [success |-> TRUE, hasContent |-> TRUE,
        content |-> assemblePromptWithExamples(core, toolCall.examples, toolCall.context),
        hasError |-> FALSE, error |-> ""]
  ELSE [success |-> FALSE, hasContent |-> FALSE, content |-> <<>>,
        hasError |-> TRUE, error |-> "Unknown tool type"]

processToolCalls(core, assistantResponse) ==
  LET toolCalls == parseToolCalls(assistantResponse)
  IN  [toolCalls |-> toolCalls,
       results |-> [i \in 1..Len(toolCalls) |-> executeToolCall(core, toolCalls[i])],
       hasToolCalls |-> Len(toolCalls) > 0]

RECURSIVE RemoveToolCalls(_, _)
RemoveToolCalls(s, p) ==
  IF p > Len(s) THEN <<>>
  ELSE LET match == ToolMatchAt(s, p)
       IN  IF match.ok
           THEN RemoveToolCalls(s, match.to + 1)
           ELSE <<s[p]>> \o RemoveToolCalls(s, p + 1)

cleanAssistantResponse(assistantResponse) == Trim(RemoveToolCalls(assistantResponse, 1))

\* results.filter(success).map(content).filter(non-empty).join('\n\n')
RECURSIVE JoinContents(_)
JoinContents(cs) ==
  IF cs = <<>> THEN <<>>
  ELSE IF Len(cs) = 1 THEN Head(cs)
  ELSE Head(cs) \o <<Ws>> \o JoinContents(Tail(cs))

LoadedContent(results) ==
  LET successful == SelectSeq(results, LAMBDA r : r.success)
      contents == [i \in 1..Len(successful) |-> successful[i].content]
  IN  JoinContents(SelectSeq(contents, LAMBDA c : c # <<>>))

(***************************************************************************)
(* State.                                                                  *)
(*   chatSessions  the session map, in insertion order: entries            *)
(*                 [key, ref], ref an index into sessions                  *)
(*   sessions      the session objects ever created                        *)
(*   turn          per turn: the locals of one sendMessage or              *)
(*                 sendMessageStream call and its position                 *)
(*   now           the clock read by Date.now()                            *)
(*   core          the text loadCoreInstructions returns                   *)
(*   exec          one processDecemberResponse / executeDecemberCommands   *)
(*                 call run step by step                                   *)
(*   tool          one processToolCalls call run step by step              *)
(*   select        one analyzeUserRequest call run step by step            *)
(***************************************************************************)
VARIABLES chatSessions, sessions, turn, now, core, exec, tool, select

vars == <<chatSessions, sessions, turn, now, core, exec, tool, select>>

Turns == 1..MaxTurns

SeqsUpTo(S, n) == UNION {[1..m -> S] : m \in 0..n}

(***************************************************************************)
(* The executor, one loop iteration per step.                              *)
(***************************************************************************)
CommandAlphabet ==
  {WriteOpen("a"), Tag("/dec-write"), DeleteTag("a"), RenameTag("a", "b"),
   DependencyTag("pkg"), Txt("x"), Ws, Tag("dec-thinking"), Tag("/dec-thinking")}

CommandTexts == SeqsUpTo(CommandAlphabet, MaxLen)

\* the wrappers whose tags are removed and whose body is kept
WrapperPairs == {<<Tag("dec-code"), Tag("/dec-code")>>, <<Tag("dec-error"), Tag("/dec-error")>>,
                 <<Tag("dec-success"), Tag("/dec-success")>>}

\* a text inside one wrapper
WrappedTexts ==
  {<<pair[1]>> \o text \o <<pair[2]>> : pair \in WrapperPairs, text \in CommandTexts}

\* an opening tag with an element standing inside its name
SplicedTexts ==
  {<<WriteOpenHead>> \o element \o <<WriteOpenTail("a"), Txt("x"), Tag("/dec-write")>> :
     element \in {<<Tag("dec-thinking"), Txt("x"), Tag("/dec-thinking")>>, <<DeleteTag("a")>>,
                  <<Tag("dec-code"), Tag("/dec-code")>>}}
    \cup {<<TagHead("dec-error"), DeleteTag("a"), TagTail("dec-error"), Txt("x"),
            Tag("/dec-error")>>,
          <<TagHead("dec-thinking"), Tag("dec-code"), Tag("/dec-code"),
            TagTail("dec-thinking"), Txt("x"), Tag("/dec-thinking"), Txt("y")>>}

\* the elements as the instruction documents write them:
\* <dec-rename original_file_path="p" new_file_path="q" /> and
\* <dec-add-dependency>package</dec-add-dependency>
TaughtRenameTag(p, q) == Tok("dec-rename original_file_path", p, q)
TaughtDependency(package) ==
  <<Tag("dec-add-dependency>"), Txt(package), Tag("/dec-add-dependency")>>

\* the responses of the two examples, and the two elements on their own
TaughtTexts ==
  {<<Txt("x"), Tag("dec-code"), TaughtRenameTag("a", "b"), Tag("/dec-code"), Txt("x")>>,
   <<WriteOpen("a"), Txt("x"), Tag("/dec-write"), Txt("x")>> \o TaughtDependency("pkg"),
   <<TaughtRenameTag("a", "b")>>,
   TaughtDependency("pkg")}

ResponseTexts == CommandTexts \cup WrappedTexts \cup SplicedTexts \cup TaughtTexts

\* command objects a caller can pass, with and without their fields
CommandDomain ==
  {WriteCommand("a", <<Txt("x")>>), WriteCommand("a", <<>>),
   WriteCommand("", <<Txt("x")>>),
   Command("write", "a", FALSE, <<>>, "", "", ""),
   RenameCommand("a", "b"), RenameCommand("a", ""),
   DeleteCommand("a"), DeleteCommand(""),
   DependencyCommand("pkg"), DependencyCommand(""),
   Command("move", "a", FALSE, <<>>, "", "", "")}

CommandLists == SeqsUpTo(CommandDomain, MaxLen)

ExecIdle ==
  [pc |-> "idle", entry |-> "none", response |-> <<>>, commands |-> <<>>, i |-> 1,
   errors |-> <<>>, attempted |-> <<>>, calls |-> <<>>,
   cleanedResponse |-> <<>>, commandsExecuted |-> 0, success |-> FALSE,
   cleanedContent |-> <<>>, hasCommands |-> FALSE]

\* processDecemberResponse up to the call of executeDecemberCommands
ParseResponse ==
  /\ exec.pc = "parse"
  /\ LET parsed == parseDecemberTags(exec.response)
     IN  exec' = IF parsed.hasCommands
                 THEN [exec EXCEPT !.pc = "execute", !.commands = parsed.commands,
                                   !.cleanedContent = parsed.cleanedContent,
                                   !.hasCommands = parsed.hasCommands]
                 ELSE [exec EXCEPT !.pc = "returned",
                                   !.cleanedContent = parsed.cleanedContent,
                                   !.hasCommands = parsed.hasCommands,
                                   !.cleanedResponse = exec.response,
                                   !.commandsExecuted = 0,
                                   !.success = TRUE]
  /\ UNCHANGED <<chatSessions, sessions, turn, now, core, tool, select>>

\* the loop as it would be with the try around it instead of inside it
ExecuteCommandFailFast(throws) ==
  /\ exec.pc = "execute"
  /\ exec.i <= Len(exec.commands)
  /\ throws => exec.i \in WritePositions(exec.commands)
  /\ LET one == ExecuteOne(exec.commands[exec.i], throws)
     IN  exec' = [exec EXCEPT !.i = IF throws THEN Len(exec.commands) + 1
                                              ELSE exec.i + 1,
                              !.errors = exec.errors \o one.errors,
                              !.attempted = Append(exec.attempted, exec.commands[exec.i]),
                              !.calls = exec.calls \o one.calls]
  /\ UNCHANGED <<chatSessions, sessions, turn, now, core, tool, select>>

\* one iteration of the loop of executeDecemberCommands
ExecuteCommand(throws) ==
  /\ exec.pc = "execute"
  /\ exec.i <= Len(exec.commands)
  /\ throws => exec.i \in WritePositions(exec.commands)
  /\ LET one == ExecuteOne(exec.commands[exec.i], throws)
     IN  exec' = [exec EXCEPT !.i = exec.i + 1,
                              !.errors = exec.errors \o one.errors,
                              !.attempted = Append(exec.attempted, exec.commands[exec.i]),
                              !.calls = exec.calls \o one.calls]
  /\ UNCHANGED <<chatSessions, sessions, turn, now, core, tool, select>>

\* the return of executeDecemberCommands: { success, errors }
ExecuteReturn ==
  /\ exec.pc = "execute"
  /\ exec.i > Len(exec.commands)
  /\ exec' = [exec EXCEPT !.pc = IF exec.entry = "process" THEN "executed"
                                                           ELSE "returned",
                          !.success = (Len(exec.errors) = 0)]
  /\ UNCHANGED <<chatSessions, sessions, turn, now, core, tool, select>>

\* the return of processDecemberResponse after the commands were executed
ProcessReturn ==
  /\ exec.pc = "executed"
  /\ exec' = [exec EXCEPT !.pc = "returned",
                          !.cleanedResponse =
                             parseDecemberTags(exec.response).cleanedContent,
                          !.commandsExecuted = Len(exec.commands)]
  /\ UNCHANGED <<chatSessions, sessions, turn, now, core, tool, select>>

(***************************************************************************)
(* processToolCalls, one iteration of the scanning loop per step.  The     *)
(* texts it is given are built from pieces: load_examples elements in      *)
(* every form the protocol allows, prose, and fragments of elements.  A    *)
(* piece records the names it was built from; they are no part of the      *)
(* text.                                                                   *)
(***************************************************************************)
Piece(kind, text, examples, context) ==
  [kind |-> kind, text |-> text, examples |-> examples, context |-> context]

\* the body of an examples or context child, and the names it lists
NameBodies ==
  {[body |-> <<>>, names |-> <<>>],
   [body |-> <<Ws>>, names |-> <<>>],
   [body |-> <<Ws, Comma, Ws>>, names |-> <<>>],
   [body |-> Name("foo.md"), names |-> <<Name("foo.md")>>],
   [body |-> <<Ws>> \o Name("foo.md") \o <<Ws, Comma, Comma, Ws>> \o Name("bar.md") \o <<Ws>>,
    names |-> <<Name("foo.md"), Name("bar.md")>>]}

ContextBodies ==
  {[has |-> FALSE, body |-> <<>>, names |-> <<>>],
   [has |-> TRUE, body |-> Name("ctx.md"), names |-> <<Name("ctx.md")>>],
   [has |-> TRUE, body |-> <<Ws>> \o Name("ctx.md") \o <<Ws, Comma>>,
    names |-> <<Name("ctx.md")>>]}

\* whitespace (blanks, newlines) between the children of an element
Gaps == {<<>>, <<Ws>>}

Element(gap, examples, context) ==
  Piece("element",
        <<Tag("load_examples")>> \o gap \o <<Tag("examples")>> \o examples.body \o <<Tag("/examples")>>
          \o (IF context.has
              THEN gap \o <<Tag("context")>> \o context.body \o <<Tag("/context")>>
              ELSE <<>>)
          \o gap \o <<Tag("/load_examples")>>,
        examples.names, context.names)

Elements ==
  {Element(gap, examples, context) :
     gap \in Gaps, examples \in NameBodies, context \in ContextBodies}

\* prose, and closing or inner tags that stand alone
Fragments ==
  {Piece("prose", <<Txt("hi")>>, <<>>, <<>>),
   Piece("prose", <<Ws>>, <<>>, <<>>),
   Piece("prose", <<Tag("/load_examples")>>, <<>>, <<>>),
   Piece("prose", <<Tag("examples")>> \o Name("foo.md") \o <<Tag("/examples")>>, <<>>, <<>>)}

\* an element that is opened and not closed as the protocol requires
Unterminated ==
  {Piece("unterminated",
         <<Tag("load_examples"), Tag("examples")>> \o Name("foo.md") \o <<Tag("/examples")>>, <<>>, <<>>),
   Piece("unterminated",
         <<Tag("load_examples"), Tag("examples")>> \o Name("foo.md")
           \o <<Tag("/examples"), Txt("junk"), Tag("/load_examples")>>, <<>>, <<>>)}

Pieces == Elements \cup Fragments \cup Unterminated

\* an element between an opening tag and the rest of an element
NestedInputs ==
  {<<Piece("prose", <<Tag("load_examples")>>, <<>>, <<>>), element,
     Piece("prose", <<Tag("examples")>> \o Name("foo.md") \o <<Tag("/examples"), Tag("/load_examples")>>,
           <<>>, <<>>)>> : element \in Elements}

ToolInputs == SeqsUpTo(Pieces, MaxPieces) \cup NestedInputs

TextOf(pieces) == Concat([i \in 1..Len(pieces) |-> pieces[i].text])

\* tool calls a caller of executeToolCall can pass: documents that exist and
\* documents that do not, in either list, and a tool of another type
ToolCallDomain ==
  {ToolCall(<<Name("foo.md")>>, <<>>),
   ToolCall(<<Name("bar.md")>>, <<>>),
   ToolCall(<<Name("foo.md"), Name("bar.md")>>, <<Name("ctx.md")>>),
   ToolCall(<<Name("ctx.md")>>, <<Name("foo.md")>>),
   ToolCall(<<Name("bar.md")>>, <<Name("nope.md")>>),
   [type |-> "other", examples |-> <<Name("foo.md")>>, context |-> <<>>]}

ToolIdle ==
  [pc |-> "idle", pieces |-> <<>>, text |-> <<>>, lastIndex |-> 1,
   toolCalls |-> <<>>, results |-> <<>>, hasToolCalls |-> FALSE,
   cleaned |-> <<>>]

\* one iteration of while ((match = loadExamplesRegex.exec(...)) !== null)
ParseToolMatch ==
  /\ tool.pc = "parse"
  /\ LET matches == loadExamplesRegex(tool.text, tool.lastIndex)
     IN  /\ matches # <<>>
         /\ tool' = [tool EXCEPT !.lastIndex = Head(matches).to + 1,
                                  !.toolCalls = @ \o ToolCallsOfMatches(<<Head(matches)>>)]
  /\ UNCHANGED <<chatSessions, sessions, turn, now, core, exec, select>>

\* exec returned null: parseToolCalls returns toolCalls
ParseToolReturn ==
  /\ tool.pc = "parse"
  /\ loadExamplesRegex(tool.text, tool.lastIndex) = <<>>
  /\ tool' = [tool EXCEPT !.pc = "execute"]
  /\ UNCHANGED <<chatSessions, sessions, turn, now, core, exec, select>>

\* processToolCalls: every tool call is executed and the result is returned
ExecuteToolCalls ==
  /\ tool.pc = "execute"
  /\ tool' = [tool EXCEPT !.pc = "returned",
                          !.results = [i \in 1..Len(tool.toolCalls) |->
                                         executeToolCall(core, tool.toolCalls[i])],
                          !.hasToolCalls = Len(tool.toolCalls) > 0]
  /\ UNCHANGED <<chatSessions, sessions, turn, now, core, exec, select>>

\* cleanAssistantResponse on the text the tool calls were parsed from
CleanAssistantResponse ==
  /\ tool.pc = "returned"
  /\ tool' = [tool EXCEPT !.pc = "cleaned",
                          !.cleaned = cleanAssistantResponse(tool.text)]
  /\ UNCHANGED <<chatSessions, sessions, turn, now, core, exec, select>>

\* one executeToolCall call on a tool call passed by the caller
ExecuteToolCall ==
  /\ tool.pc = "call"
  /\ tool' = [tool EXCEPT !.pc = "called",
                          !.results = <<executeToolCall(core, tool.toolCalls[1])>>]
  /\ UNCHANGED <<chatSessions, sessions, turn, now, core, exec, select>>

(***************************************************************************)
(* analyzeUserRequest, one loop or rule per step.  The utterances are made *)
(* of up to MaxWords words with a space between them.                      *)
(***************************************************************************)
Words ==
  {<<"F", "i", "x">>,
   <<"f", "i", "x">>,
   <<"b", "u", "g">>,
   <<"e", "r", "r", "o", "r">>,
   <<"B", "U", "G">>,
   <<"i", "s", "s", "u", "e">>,
   <<"b", "u", "i", "l", "d">>,
   <<"c", "o", "m", "p", "o", "n", "e", "n", "t">>,
   <<"B", "u", "t", "t", "o", "n">>,
   <<"h", "e", "l", "l", "o">>,
   <<"p", "a", "c", "k", "a", "g", "e">>,
   <<"U", "I">>}

RECURSIVE Join(_)
Join(words) ==
  IF words = <<>> THEN <<>>
  ELSE IF Len(words) = 1 THEN Head(words)
  ELSE Head(words) \o <<" ">> \o Join(Tail(words))

\* the messages of the comprehensive test of routes/test.ts
testMessages ==
  {<<"C", "r", "e", "a", "t", "e", " ", "a", " ", "R", "e", "a", "c", "t", " ", "c", "o", "m", "p", "o", "n", "e", "n", "t">>,
   <<"F", "i", "x", " ", "a", "n", " ", "e", "r", "r", "o", "r", " ", "i", "n", " ", "m", "y", " ", "c", "o", "d", "e">>,
   <<"S", "t", "y", "l", "e", " ", "w", "i", "t", "h", " ", "T", "a", "i", "l", "w", "i", "n", "d", " ", "C", "S", "S">>,
   <<"A", "d", "d", " ", "a", "u", "t", "h", "e", "n", "t", "i", "c", "a", "t", "i", "o", "n">>}

Utterances == {Join(words) : words \in SeqsUpTo(Words, MaxWords)} \cup testMessages

SelectIdle ==
  [pc |-> "idle", userMessage |-> <<>>, message |-> <<>>,
   examples |-> <<>>, context |-> <<>>]

\* the loop over exampleTriggers
SelectExamples ==
  /\ select.pc = "examples"
  /\ select' = [select EXCEPT !.pc = "context",
                              !.examples = SelectedFiles(exampleTriggers, select.message)]
  /\ UNCHANGED <<chatSessions, sessions, turn, now, core, exec, tool>>

\* the loop over contextTriggers
SelectContext ==
  /\ select.pc = "context"
  /\ select' = [select EXCEPT !.pc = "errors",
                              !.context = SelectedFiles(contextTriggers, select.message)]
  /\ UNCHANGED <<chatSessions, sessions, turn, now, core, exec, tool>>

\* the rule for error-related keywords
ForceCommonErrors ==
  /\ select.pc = "errors"
  /\ select' = [select EXCEPT !.pc = "shadcn",
                              !.context = ForcedCommonErrors(select.message, @)]
  /\ UNCHANGED <<chatSessions, sessions, turn, now, core, exec, tool>>

\* the rule for UI components, and the return
ForceShadcn ==
  /\ select.pc = "shadcn"
  /\ select' = [select EXCEPT !.pc = "returned",
                              !.context = ForcedShadcn(select.message, @)]
  /\ UNCHANGED <<chatSessions, sessions, turn, now, core, exec, tool>>

(***************************************************************************)
(* The session store (llm.ts).                                             *)
(***************************************************************************)
Containers == {"c1", "c2"}
\* the text of a user message is not looked at by the code; it holds a command
\* element so that the history of a session does
UserMessages == {<<Txt("hello"), WriteOpen("u"), Txt("y"), Tag("/dec-write")>>}

NoId == <<"none", 0>>
NoMessage ==
  [id |-> NoId, role |-> "none", content |-> <<>>, timestamp |-> 0,
   attachments |-> <<>>, turn |-> 0]

\* a Message; an empty attachments list stands for undefined, and turn records
\* the call that built it and is no field of the code
Message(id, role, content, t) ==
  [id |-> id, role |-> role, content |-> content, timestamp |-> now,
   attachments |-> <<>>, turn |-> t]

\* Attachments: the data is base64 text
ImageFile == [type |-> "image", name |-> "a.png", mimeType |-> "image/png", data |-> "iVBO"]
DocumentFile == [type |-> "document", name |-> "a.txt", mimeType |-> "text/plain", data |-> "aGk="]
AttachmentLists == {<<>>, <<ImageFile>>, <<DocumentFile, ImageFile>>}

\* Buffer.from(data, "base64").toString("utf-8")
Base64Decode(data) == IF data = "aGk=" THEN "hi" ELSE ""

\* buildMessageContent: a text part with the message, then an image_url part
\* for an image and a text part with the decoded text for a document; a part
\* is written as a marker followed by what the part holds
buildMessageContent(message, attachments) ==
  LET part(attachment) ==
        CASE attachment.type = "image" ->
               <<Tok("part", "image_url", ""),
                 Tok("url", attachment.mimeType, attachment.data)>>
          [] attachment.type = "document" ->
               <<Tok("part", "text", ""), Ws, Tok("document", attachment.name, ""),
                 Ws, Txt(Base64Decode(attachment.data))>>
          [] OTHER -> <<>>
  IN  <<Tok("part", "text", "")>> \o message
        \o Concat([i \in 1..Len(attachments) |-> part(attachments[i])])

NewSession(containerId) ==
  [id |-> <<containerId, now>>, containerId |-> containerId, messages |-> <<>>,
   createdAt |-> now, updatedAt |-> now]

\* the lookup as it would be by the generated key, chatSessions.get(sessionId)
FindSessionById(containerId) ==
  LET hits == {i \in 1..Len(chatSessions) :
                 chatSessions[i].key = <<containerId, now>>}
  IN  IF hits = {} THEN 0 ELSE chatSessions[MinOf(hits)].ref

\* Array.from(chatSessions.values()).find(...): the first entry, in insertion
\* order, whose session has the container identifier; 0 when there is none
FindSession(containerId) ==
  LET hits == {i \in 1..Len(chatSessions) :
                 sessions[chatSessions[i].ref].containerId = containerId}
  IN  IF hits = {} THEN 0 ELSE chatSessions[MinOf(hits)].ref

\* Map.prototype.set: an existing key keeps its place
MapSet(map, key, ref) ==
  IF \E i \in 1..Len(map) : map[i].key = key
  THEN [i \in 1..Len(map) |->
          IF map[i].key = key THEN [key |-> key, ref |-> ref] ELSE map[i]]
  ELSE Append(map, [key |-> key, ref |-> ref])

getOrCreateChatSession(containerId) ==
  LET existingSession == FindSession(containerId)
      ref == Len(sessions) + 1
  IN  IF existingSession # 0
      THEN [session |-> existingSession, map |-> chatSessions, heap |-> sessions]
      ELSE [session |-> ref,
            map |-> MapSet(chatSessions, <<containerId, now>>, ref),
            heap |-> Append(sessions, NewSession(containerId))]

\* createChatSession: a new session is stored under the generated key
createChatSession(containerId) ==
  [session |-> Len(sessions) + 1,
   map |-> MapSet(chatSessions, <<containerId, now>>, Len(sessions) + 1),
   heap |-> Append(sessions, NewSession(containerId))]

\* the list as it would be with unshift in place of push
PushFront(heap, ref, msg) ==
  [heap EXCEPT ![ref].messages = <<msg>> \o heap[ref].messages]

\* session.messages.push(msg) on the session object ref of heap
Push(heap, ref, msg) ==
  [heap EXCEPT ![ref].messages = Append(heap[ref].messages, msg)]

\* the role/content entries sent to the model for a list of Messages
History(messages) ==
  [i \in 1..Len(messages) |->
     [role |-> messages[i].role,
      content |-> IF messages[i].role = "user" /\ messages[i].attachments # <<>>
                  THEN buildMessageContent(messages[i].content, messages[i].attachments)
                  ELSE messages[i].content]]

(***************************************************************************)
(* The model provider.  A reply is the sequence of chunks of one           *)
(* completion; a chunk is the text of its delta, empty when the chunk      *)
(* carries no content.  A buffered call returns the chunks as one text.    *)
(***************************************************************************)
ReplyEmpty == << <<>> >>
ReplyProse == << <<Txt("hi")>>, <<Ws, Txt("there")>> >>
ReplyTool ==
  << <<Txt("hi"), Tag("load_examples"), Tag("examples")>>,
     <<Txt("foo.md"), Tag("/examples"), Tag("/load_examples")>> >>
ReplyToolMissing ==
  << <<Tag("load_examples"), Tag("examples"), Txt("nope.md"), Tag("/examples"), Tag("/load_examples")>> >>
ReplyCommands ==
  << <<Txt("ok"), DeleteTag("a"), WriteOpen("a"), Txt("x"), Tag("/dec-write")>> >>
ReplyThinking ==
  << <<Tag("dec-thinking"), Txt("secret"), Tag("/dec-thinking"), Txt("hi")>> >>
ReplyThinkingWrite ==
  << <<Tag("dec-thinking"), Txt("secret"), Tag("/dec-thinking")>>,
     <<WriteOpen("a"), Txt("x"), Tag("/dec-write"), Txt("done")>> >>

ReplyToolWrite ==
  << <<Tag("load_examples"), Tag("examples"), Txt("foo.md"), Tag("/examples"), Tag("/load_examples")>>,
     <<WriteOpen("b"), Txt("x"), Tag("/dec-write")>> >>

ModelReplies ==
  {ReplyEmpty, ReplyProse, ReplyTool, ReplyToolMissing, ReplyCommands,
   ReplyThinking, ReplyThinkingWrite, ReplyToolWrite}

ConcurrentReplies == {ReplyProse, ReplyTool}

Sorry == <<Txt("Sorry, I could not generate a response.")>>

(***************************************************************************)
(* One turn: sendMessage (mode buffered) and sendMessageStream (mode       *)
(* streamed).  An action is the code between two suspension points (an     *)
(* await, or a yield of the generator).                                    *)
(***************************************************************************)
\* firstText, secondText and accumulated record the complete text of the
\* first phase, of the second phase and the text handed to
\* processDecemberResponse; they are no locals of the code
TurnIdle ==
  [pc |-> "idle", mode |-> "none", containerId |-> "", session |-> 0,
   userMsg |-> NoMessage, assistantId |-> NoId, assistantContent |-> <<>>,
   firstText |-> <<>>, secondText |-> <<>>, accumulated |-> <<>>,
   stream |-> <<>>, hasToolCalls |-> FALSE,
   augmented |-> FALSE, requests |-> <<>>, events |-> <<>>,
   extracted |-> FALSE, attempted |-> <<>>, errors |-> <<>>, calls |-> <<>>,
   assistantMsg |-> NoMessage, outputs |-> <<>>]

Event(type, msg, toolCalls) == [type |-> type, data |-> msg, toolCalls |-> toolCalls]

\* a request to the provider: the system prompt, the content loaded by the
\* tool calls that the second request appends to it, and the history
Request(phase, system, loaded, messages) ==
  [phase |-> phase, system |-> system, loaded |-> loaded, messages |-> messages]

\* JSON.stringify(fileContentTree)
CodeContext == Tok("codeContext", "", "")

\* the characters of the tokens the user messages are made of
Spelling(token) ==
  CASE token.k = "text" /\ token.a = "hello" -> <<"h", "e", "l", "l", "o">>
    [] token.k = "text" /\ token.a = "y" -> <<"y">>
    [] token.k = "ws" -> <<" ">>
    [] token.k = "dec-write" ->
         <<"<", "d", "e", "c", "-", "w", "r", "i", "t", "e", " ", "f", "i", "l", "e", "_", "p", "a", "t", "h", "=", "\"">>
           \o <<token.a>> \o <<"\"", ">">>
    [] token.k = "/dec-write" -> <<"<", "/", "d", "e", "c", "-", "w", "r", "i", "t", "e", ">">>

Characters(text) == Concat([i \in 1..Len(text) |-> Spelling(text[i])])

\* buildSystemPrompt: the analysis and the loaders raise nothing, so the
\* catch block is not entered
buildSystemPrompt(coreText, userMessage) ==
  LET analysisResult == analyzeUserRequest(Characters(userMessage))
      systemPrompt ==
        IF Len(analysisResult.examples) > 0 \/ Len(analysisResult.context) > 0
        THEN assemblePromptWithExamples(coreText, analysisResult.examples,
                                        analysisResult.context)
        ELSE coreText
  IN  systemPrompt
        \o <<Ws, Txt("Current codebase structure and content:"), Ws, CodeContext>>

\* lines 163-173 and 311-322: the session is looked up or created, the user
\* Message is appended and, in streamed mode, yielded
Ingest(t, mode, containerId, userMessage, attachments) ==
  /\ turn[t].pc = "idle"
  /\ \A u \in Turns : u < t => turn[u].pc # "idle"
  /\ LET got == getOrCreateChatSession(containerId)
         userMsg == [Message(<<"user", now>>, "user", userMessage, t)
                       EXCEPT !.attachments = attachments]
     IN  /\ chatSessions' = got.map
         /\ sessions' = Push(got.heap, got.session, userMsg)
         /\ turn' = [turn EXCEPT ![t] =
                       [@ EXCEPT !.pc = "snapshot", !.mode = mode,
                                 !.containerId = containerId,
                                 !.session = got.session, !.userMsg = userMsg,
                                 !.events = IF mode = "streamed"
                                            THEN <<Event("user", userMsg, <<>>)>>
                                            ELSE <<>>]]
  /\ UNCHANGED <<now, core, exec, tool, select>>

\* getFileContentTree returned: the first request is built from the session's
\* messages as they are now and sent
SnapshotReturns(t) ==
  /\ turn[t].pc = "snapshot"
  /\ turn' = [turn EXCEPT ![t] =
                [@ EXCEPT !.pc = "call1",
                          !.assistantId = IF turn[t].mode = "streamed"
                                          THEN <<"assistant", now>> ELSE NoId,
                          !.requests = <<Request(1,
                                           buildSystemPrompt(core, turn[t].userMsg.content),
                                           <<>>,
                                           History(sessions[turn[t].session].messages))>>]]
  /\ UNCHANGED <<chatSessions, sessions, now, core, exec, tool, select>>

\* getFileContentTree raised: the exception leaves the function
SnapshotFails(t) ==
  /\ turn[t].pc = "snapshot"
  /\ turn' = [turn EXCEPT ![t].pc = "failed"]
  /\ UNCHANGED <<chatSessions, sessions, now, core, exec, tool, select>>

\* a call of openai.chat.completions.create, or the iteration of its stream,
\* raised: nothing catches it
ModelCallFails(t) ==
  /\ turn[t].pc \in {"call1", "stream1", "call2", "stream2"}
  /\ turn' = [turn EXCEPT ![t].pc = "failed"]
  /\ UNCHANGED <<chatSessions, sessions, now, core, exec, tool, select>>

\* the end of the generator as it would be if it saved what it had
\* accumulated
CancelPersistsPartial(t) ==
  /\ turn[t].mode = "streamed"
  /\ turn[t].pc \in {"snapshot", "stream1", "stream2", "tool_processing"}
  /\ sessions' = [sessions EXCEPT ![turn[t].session] =
                    [@ EXCEPT !.messages =
                                 Append(@, [id |-> turn[t].assistantId,
                                            role |-> "assistant",
                                            content |-> turn[t].assistantContent,
                                            timestamp |-> now, turn |-> t]),
                              !.updatedAt = now]]
  /\ turn' = [turn EXCEPT ![t].pc = "cancelled"]
  /\ UNCHANGED <<chatSessions, now, core, exec, tool, select>>

\* the consumer of sendMessageStream stops iterating: the generator ends at
\* the yield it is suspended at and the code after it is not run
Cancel(t) ==
  /\ turn[t].mode = "streamed"
  /\ turn[t].pc \in {"snapshot", "stream1", "stream2", "tool_processing"}
  /\ turn' = [turn EXCEPT ![t].pc = "cancelled"]
  /\ UNCHANGED <<chatSessions, sessions, now, core, exec, tool, select>>

\* the test as it would be without the checks of the results
AugmentsOnToolCalls(toolProcessing) == toolProcessing.hasToolCalls

\* if (toolProcessing.hasToolCalls) / successfulResults.length > 0 / loadedContent
Augments(toolProcessing) ==
  /\ toolProcessing.hasToolCalls
  /\ \E i \in 1..Len(toolProcessing.results) : toolProcessing.results[i].success
  /\ LoadedContent(toolProcessing.results) # <<>>

\* enhancedMessages: all but the last Message of the session as it is now, the
\* user message, and the cleaned first response when it is not blank
EnhancedMessages(t, assistantContent) ==
  LET messages == sessions[turn[t].session].messages
      cleanedResponse == cleanAssistantResponse(assistantContent)
  IN  History(SubSeq(messages, 1, Len(messages) - 1))
        \o <<[role |-> "user", content |-> turn[t].userMsg.content]>>
        \o (IF Trim(cleanedResponse) # <<>>
            THEN <<[role |-> "assistant", content |-> cleanedResponse]>>
            ELSE <<>>)

EnhancedRequest(t, assistantContent) ==
  Request(2, buildSystemPrompt(core, turn[t].userMsg.content),
          LoadedContent(processToolCalls(core, assistantContent).results),
          EnhancedMessages(t, assistantContent))

\* sendMessage, lines 206-273 up to the second await: the first completion
\* returned; the tool calls are processed and the second request is sent, or
\* the turn goes on to the commands
FirstCompletion(t, reply) ==
  /\ turn[t].pc = "call1" /\ turn[t].mode = "buffered"
  /\ LET content == Concat(reply)
         assistantContent == IF content # <<>> THEN content ELSE Sorry
         toolProcessing == processToolCalls(core, assistantContent)
     IN  turn' = [turn EXCEPT ![t] =
                    [@ EXCEPT !.assistantContent = assistantContent,
                              !.firstText = assistantContent,
                              !.outputs = Append(@, content),
                              !.hasToolCalls = toolProcessing.hasToolCalls,
                              !.augmented = Augments(toolProcessing),
                              !.pc = IF Augments(toolProcessing) THEN "call2"
                                                                 ELSE "process",
                              !.requests =
                                 IF Augments(toolProcessing)
                                 THEN Append(@, EnhancedRequest(t, assistantContent))
                                 ELSE @]]
  /\ UNCHANGED <<chatSessions, sessions, now, core, exec, tool, select>>

\* the second completion as it would be if its tool calls were processed too
SecondCompletionRescans(t, reply) ==
  /\ turn[t].pc = "call2" /\ turn[t].mode = "buffered"
  /\ LET again == Augments(processToolCalls(core, Concat(reply)))
     IN  turn' = [turn EXCEPT ![t] =
                    [@ EXCEPT !.assistantContent =
                                 IF Concat(reply) # <<>> THEN Concat(reply) ELSE @,
                              !.secondText = Concat(reply),
                              !.outputs = Append(@, Concat(reply)),
                              !.requests =
                                 IF again THEN Append(@, EnhancedRequest(t, Concat(reply)))
                                          ELSE @,
                              !.pc = IF again THEN "call2" ELSE "process"]]
  /\ UNCHANGED <<chatSessions, sessions, now, core, exec, tool, select>>

\* sendMessage, lines 260-268: the second completion returned
SecondCompletion(t, reply) ==
  /\ turn[t].pc = "call2" /\ turn[t].mode = "buffered"
  /\ turn' = [turn EXCEPT ![t] =
                [@ EXCEPT !.assistantContent =
                             IF Concat(reply) # <<>> THEN Concat(reply) ELSE @,
                          !.secondText = Concat(reply),
                          !.outputs = Append(@, Concat(reply)),
                          !.pc = "process"]]
  /\ UNCHANGED <<chatSessions, sessions, now, core, exec, tool, select>>

\* sendMessageStream, lines 351-357 and 436-442: create returned a stream
StreamOpens(t, reply) ==
  /\ turn[t].pc \in {"call1", "call2"} /\ turn[t].mode = "streamed"
  /\ turn' = [turn EXCEPT ![t] =
                [@ EXCEPT !.stream = reply,
                          !.outputs = Append(@, Concat(reply)),
                          !.pc = IF turn[t].pc = "call1" THEN "stream1"
                                                         ELSE "stream2"]]
  /\ UNCHANGED <<chatSessions, sessions, now, core, exec, tool, select>>

\* the iteration as it would be if the event carried the increment alone
StreamChunkDelta(t) ==
  /\ turn[t].pc \in {"stream1", "stream2"}
  /\ turn[t].stream # <<>>
  /\ LET delta == Head(turn[t].stream)
         assistantContent == turn[t].assistantContent \o delta
     IN  turn' = [turn EXCEPT ![t] =
                    [@ EXCEPT !.stream = Tail(@),
                              !.assistantContent = assistantContent,
                              !.events =
                                 IF delta # <<>>
                                 THEN Append(@, Event("assistant",
                                        Message(turn[t].assistantId, "assistant",
                                                delta, t), <<>>))
                                 ELSE @]]
  /\ UNCHANGED <<chatSessions, sessions, now, core, exec, tool, select>>

\* one iteration of for await (const chunk of stream): a chunk with content
\* extends the accumulated text and an assistant event is yielded
StreamChunk(t) ==
  /\ turn[t].pc \in {"stream1", "stream2"}
  /\ turn[t].stream # <<>>
  /\ LET delta == Head(turn[t].stream)
         assistantContent == turn[t].assistantContent \o delta
     IN  turn' = [turn EXCEPT ![t] =
                    [@ EXCEPT !.stream = Tail(@),
                              !.assistantContent = assistantContent,
                              !.events =
                                 IF delta # <<>>
                                 THEN Append(@, Event("assistant",
                                        Message(turn[t].assistantId, "assistant",
                                                assistantContent, t), <<>>))
                                 ELSE @]]
  /\ UNCHANGED <<chatSessions, sessions, now, core, exec, tool, select>>

\* sendMessageStream, lines 375-387: the first stream ended; the tool calls
\* are processed and, when there are any, tool_processing is yielded
FirstStreamEnds(t) ==
  /\ turn[t].pc = "stream1"
  /\ turn[t].stream = <<>>
  /\ LET toolProcessing == processToolCalls(core, turn[t].assistantContent)
     IN  turn' = [turn EXCEPT ![t] =
                    [@ EXCEPT !.firstText = turn[t].assistantContent,
                              !.hasToolCalls = toolProcessing.hasToolCalls,
                              !.pc = IF toolProcessing.hasToolCalls
                                     THEN "tool_processing" ELSE "process",
                              !.events =
                                 IF toolProcessing.hasToolCalls
                                 THEN Append(@, Event("tool_processing", NoMessage,
                                                      toolProcessing.toolCalls))
                                 ELSE @]]
  /\ UNCHANGED <<chatSessions, sessions, now, core, exec, tool, select>>

\* sendMessageStream, lines 389-442: resumed after the tool_processing event;
\* with loaded content the accumulated text is reset and the second request
\* is sent
ToolProcessingResumes(t) ==
  /\ turn[t].pc = "tool_processing"
  /\ LET toolProcessing == processToolCalls(core, turn[t].assistantContent)
     IN  turn' = [turn EXCEPT ![t] =
                    [@ EXCEPT !.augmented = Augments(toolProcessing),
                              !.pc = IF Augments(toolProcessing) THEN "call2"
                                                                 ELSE "process",
                              !.assistantContent =
                                 IF Augments(toolProcessing) THEN <<>> ELSE @,
                              !.requests =
                                 IF Augments(toolProcessing)
                                 THEN Append(@, EnhancedRequest(t, turn[t].assistantContent))
                                 ELSE @]]
  /\ UNCHANGED <<chatSessions, sessions, now, core, exec, tool, select>>

\* sendMessageStream, lines 444-460: the second stream ended
SecondStreamEnds(t) ==
  /\ turn[t].pc = "stream2"
  /\ turn[t].stream = <<>>
  /\ turn' = [turn EXCEPT ![t] =
                [@ EXCEPT !.secondText = turn[t].assistantContent,
                          !.pc = "process"]]
  /\ UNCHANGED <<chatSessions, sessions, now, core, exec, tool, select>>

\* the step as it would be if the first-phase text were processed with the
\* accumulated text
ProcessCommandsOfBothTexts(t, throwing) ==
  /\ turn[t].pc = "process"
  /\ LET both == IF turn[t].augmented
                 THEN turn[t].firstText \o turn[t].assistantContent
                 ELSE turn[t].assistantContent
         decemberProcessing == processDecemberResponse(both, throwing)
     IN  /\ throwing \subseteq WritePositions(parseDecemberTags(both).commands)
         /\ turn' = [turn EXCEPT ![t] =
                       [@ EXCEPT !.assistantContent =
                                    IF decemberProcessing.commandsExecuted > 0
                                    THEN decemberProcessing.cleanedResponse ELSE @,
                                 !.accumulated = turn[t].assistantContent,
                                 !.extracted = TRUE,
                                 !.attempted = decemberProcessing.attempted,
                                 !.errors = decemberProcessing.errors,
                                 !.calls = decemberProcessing.calls,
                                 !.pc = "finalize"]]
  /\ UNCHANGED <<chatSessions, sessions, now, core, exec, tool, select>>

\* the step as it would be if the cleaned text were taken only when every
\* command succeeded
ProcessCommandsCleanOnSuccess(t, throwing) ==
  /\ turn[t].pc = "process"
  /\ throwing \subseteq
       WritePositions(parseDecemberTags(turn[t].assistantContent).commands)
  /\ LET decemberProcessing ==
           processDecemberResponse(turn[t].assistantContent, throwing)
     IN  turn' = [turn EXCEPT ![t] =
                    [@ EXCEPT !.assistantContent =
                                 IF decemberProcessing.commandsExecuted > 0
                                    /\ decemberProcessing.errors = <<>>
                                 THEN decemberProcessing.cleanedResponse ELSE @,
                              !.accumulated = turn[t].assistantContent,
                              !.extracted = TRUE,
                              !.attempted = decemberProcessing.attempted,
                              !.errors = decemberProcessing.errors,
                              !.calls = decemberProcessing.calls,
                              !.pc = "finalize"]]
  /\ UNCHANGED <<chatSessions, sessions, now, core, exec, tool, select>>

\* the step as it would be if an exception of writeFile left the function
ProcessCommandsRaising(t, throwing) ==
  /\ turn[t].pc = "process"
  /\ throwing \subseteq
       WritePositions(parseDecemberTags(turn[t].assistantContent).commands)
  /\ LET decemberProcessing ==
           processDecemberResponse(turn[t].assistantContent, throwing)
     IN  turn' = [turn EXCEPT ![t] =
                    IF throwing # {}
                    THEN [@ EXCEPT !.pc = "failed"]
                    ELSE [@ EXCEPT !.assistantContent =
                                      IF decemberProcessing.commandsExecuted > 0
                                      THEN decemberProcessing.cleanedResponse ELSE @,
                                   !.accumulated = turn[t].assistantContent,
                                   !.extracted = TRUE,
                                   !.attempted = decemberProcessing.attempted,
                                   !.errors = decemberProcessing.errors,
                                   !.calls = decemberProcessing.calls,
                                   !.pc = "finalize"]]
  /\ UNCHANGED <<chatSessions, sessions, now, core, exec, tool, select>>

\* lines 275-286 and 465-476: processDecemberResponse on the accumulated text;
\* throwing is the set of its commands whose writeFile raises
ProcessCommands(t, throwing) ==
  /\ turn[t].pc = "process"
  /\ throwing \subseteq
       WritePositions(parseDecemberTags(turn[t].assistantContent).commands)
  /\ LET decemberProcessing ==
           processDecemberResponse(turn[t].assistantContent, throwing)
     IN  turn' = [turn EXCEPT ![t] =
                    [@ EXCEPT !.assistantContent =
                                 IF decemberProcessing.commandsExecuted > 0
                                 THEN decemberProcessing.cleanedResponse ELSE @,
                              !.accumulated = turn[t].assistantContent,
                              !.extracted = TRUE,
                              !.attempted = decemberProcessing.attempted,
                              !.errors = decemberProcessing.errors,
                              !.calls = decemberProcessing.calls,
                              !.pc = "finalize"]]
  /\ UNCHANGED <<chatSessions, sessions, now, core, exec, tool, select>>

\* lines 288-293 and 478-483: the assistant Message, built from the
\* accumulated text as it is after the commands were processed
\* (the Message as it would be if built from the first-phase text)
FinalAssistantMsgOfFirstText(t) ==
  Message(IF turn[t].mode = "streamed" THEN turn[t].assistantId
                                       ELSE <<"assistant", now>>,
          "assistant", turn[t].firstText, t)

FinalAssistantMsg(t) ==
  Message(IF turn[t].mode = "streamed" THEN turn[t].assistantId
                                       ELSE <<"assistant", now>>,
          "assistant", turn[t].assistantContent, t)

\* line 490: the events of a streamed turn once done is yielded
\* (the events as they would be if the generator returned without it)
DoneEventsMissing(t, assistantMsg) == turn[t].events

DoneEvents(t, assistantMsg) ==
  IF turn[t].mode = "streamed"
  THEN Append(turn[t].events, Event("done", assistantMsg, <<>>))
  ELSE turn[t].events

\* lines 288-303 and 478-490: the assistant Message is built and appended,
\* the session is stamped and the Message is returned or yielded as done
Finalize(t) ==
  /\ turn[t].pc = "finalize"
  /\ LET assistantMsg == FinalAssistantMsg(t)
     IN  /\ sessions' = [Push(sessions, turn[t].session, assistantMsg)
                           EXCEPT ![turn[t].session].updatedAt = now]
         /\ turn' = [turn EXCEPT ![t] =
                       [@ EXCEPT !.pc = "done", !.assistantMsg = assistantMsg,
                                 !.events = DoneEvents(t, assistantMsg)]]
  /\ UNCHANGED <<chatSessions, now, core, exec, tool, select>>

\* the clock advances
Tick ==
  /\ now < MaxClock
  /\ now' = now + 1
  /\ UNCHANGED <<chatSessions, sessions, turn, core, exec, tool, select>>

(***************************************************************************)
(* Specifications.                                                         *)
(***************************************************************************)
InitStore ==
  /\ chatSessions = <<>>
  /\ sessions = <<>>
  /\ turn = [t \in Turns |-> TurnIdle]
  /\ now = 0

\* Spec: turns that run concurrently
Init ==
  /\ InitStore
  /\ core \in {<<>>, CoreText}
  /\ exec = ExecIdle
  /\ tool = ToolIdle
  /\ select = SelectIdle

Next ==
  \/ \E t \in Turns, mode \in {"buffered", "streamed"}, c \in Containers,
        m \in UserMessages : Ingest(t, mode, c, m, <<>>)
  \/ \E t \in Turns : SnapshotReturns(t)
  \/ \E t \in Turns : SnapshotFails(t)
  \/ \E t \in Turns : ModelCallFails(t)
  \/ \E t \in Turns, reply \in ConcurrentReplies : FirstCompletion(t, reply)
  \/ \E t \in Turns, reply \in ConcurrentReplies : SecondCompletion(t, reply)
  \/ \E t \in Turns, reply \in ConcurrentReplies : StreamOpens(t, reply)
  \/ \E t \in Turns : StreamChunk(t)
  \/ \E t \in Turns : FirstStreamEnds(t)
  \/ \E t \in Turns : ToolProcessingResumes(t)
  \/ \E t \in Turns : SecondStreamEnds(t)
  \/ \E t \in Turns : \E throwing \in SUBSET (1..MaxLen) : ProcessCommands(t, throwing)
  \/ \E t \in Turns : Finalize(t)

Spec == Init /\ [][Next]_vars

\* SpecTurn: calls that run one after the other, over every reply.  A call
\* that returned or raised has no locals left, and the next call starts
\* from the sessions it left behind.
RECURSIVE UserMessageCount(_)
UserMessageCount(heap) ==
  IF heap = <<>> THEN 0
  ELSE Len(SelectSeq(Head(heap).messages, LAMBDA m : m.role = "user"))
         + UserMessageCount(Tail(heap))

IngestNext(mode, containerId, userMessage) ==
  /\ UserMessageCount(sessions) < MaxTurns
  /\ Ingest(1, mode, containerId, userMessage, <<>>)

Return ==
  /\ turn[1].pc \in {"done", "failed"}
  /\ turn' = [turn EXCEPT ![1] = TurnIdle]
  /\ UNCHANGED <<chatSessions, sessions, now, core, exec, tool, select>>

NextTurn ==
  \/ \E mode \in {"buffered", "streamed"}, c \in Containers, m \in UserMessages :
        IngestNext(mode, c, m)
  \/ SnapshotReturns(1)
  \/ SnapshotFails(1)
  \/ ModelCallFails(1)
  \/ \E reply \in ModelReplies : FirstCompletion(1, reply)
  \/ \E reply \in ModelReplies : SecondCompletion(1, reply)
  \/ \E reply \in ModelReplies : StreamOpens(1, reply)
  \/ StreamChunk(1)
  \/ FirstStreamEnds(1)
  \/ ToolProcessingResumes(1)
  \/ SecondStreamEnds(1)
  \/ \E throwing \in SUBSET (1..MaxLen) : ProcessCommands(1, throwing)
  \/ Finalize(1)
  \/ Return

SpecTurn == Init /\ [][NextTurn]_vars

\* SpecModes: the same user message is sent once through sendMessage and,
\* when that turn is over, once through sendMessageStream, each to a
\* container of its own
ModeReplies == {ReplyEmpty, ReplyProse, ReplyTool, ReplyCommands, ReplyToolWrite}

NextModes ==
  \/ \E m \in UserMessages : Ingest(1, "buffered", "c1", m, <<>>)
  \/ \E m \in UserMessages :
        /\ turn[1].pc \in {"done", "failed"}
        /\ turn[1].userMsg.content = m
        /\ Ingest(2, "streamed", "c2", m, <<>>)
  \/ \E t \in Turns : SnapshotReturns(t)
  \/ \E t \in Turns : SnapshotFails(t)
  \/ \E t \in Turns : ModelCallFails(t)
  \/ \E t \in Turns, reply \in ModeReplies : FirstCompletion(t, reply)
  \/ \E t \in Turns, reply \in ModeReplies : SecondCompletion(t, reply)
  \/ \E t \in Turns, reply \in ModeReplies : StreamOpens(t, reply)
  \/ \E t \in Turns : StreamChunk(t)
  \/ \E t \in Turns : FirstStreamEnds(t)
  \/ \E t \in Turns : ToolProcessingResumes(t)
  \/ \E t \in Turns : SecondStreamEnds(t)
  \/ \E t \in Turns, throwing \in SUBSET (1..MaxLen) : ProcessCommands(t, throwing)
  \/ \E t \in Turns : Finalize(t)

SpecModes == Init /\ [][NextModes]_vars

\* SpecCancel: one turn that can fail or be cancelled, while the clock runs
IngestOnce(mode, containerId, userMessage) ==
  /\ UserMessageCount(sessions) < 1
  /\ Ingest(1, mode, containerId, userMessage, <<>>)

NextCancel ==
  \/ \E mode \in {"buffered", "streamed"}, m \in UserMessages : IngestOnce(mode, "c1", m)
  \/ SnapshotReturns(1)
  \/ SnapshotFails(1)
  \/ ModelCallFails(1)
  \/ Cancel(1)
  \/ \E reply \in ModeReplies : FirstCompletion(1, reply)
  \/ \E reply \in ModeReplies : SecondCompletion(1, reply)
  \/ \E reply \in ModeReplies : StreamOpens(1, reply)
  \/ StreamChunk(1)
  \/ FirstStreamEnds(1)
  \/ ToolProcessingResumes(1)
  \/ SecondStreamEnds(1)
  \/ \E throwing \in SUBSET (1..MaxLen) : ProcessCommands(1, throwing)
  \/ Finalize(1)
  \/ Tick

SpecCancel == Init /\ [][NextCancel]_vars

\* SpecStore: the session store under the clock.  The calls of
\* getOrCreateChatSession are those of the turns' first, synchronous part;
\* JavaScript runs each of them to its first await without interruption.
InitStoreOnly ==
  /\ InitStore
  /\ core = CoreText
  /\ exec = ExecIdle
  /\ tool = ToolIdle
  /\ select = SelectIdle

NextStore ==
  \/ \E t \in Turns, mode \in {"buffered", "streamed"}, c \in Containers,
        m \in UserMessages : Ingest(t, mode, c, m, <<>>)
  \/ Tick

SpecStore == InitStoreOnly /\ [][NextStore]_vars

\* SpecCreate: the session store when createChatSession is called as well
CreateChatSession(containerId) ==
  /\ Len(sessions) < MaxSessions
  /\ chatSessions' = createChatSession(containerId).map
  /\ sessions' = createChatSession(containerId).heap
  /\ UNCHANGED <<turn, now, core, exec, tool, select>>

NextCreate ==
  \/ \E t \in Turns, mode \in {"buffered", "streamed"}, c \in Containers,
        m \in UserMessages : Ingest(t, mode, c, m, <<>>)
  \/ \E c \in Containers : CreateChatSession(c)
  \/ Tick

SpecCreate == InitStoreOnly /\ [][NextCreate]_vars

\* SpecLive: calls that run one after the other, in which the snapshot
\* returns and no model call raises; a continuation that can run is run
NextLive ==
  \/ \E mode \in {"buffered", "streamed"}, c \in Containers, m \in UserMessages :
        IngestNext(mode, c, m)
  \/ SnapshotReturns(1)
  \/ \E reply \in ModeReplies : FirstCompletion(1, reply)
  \/ \E reply \in ModeReplies : SecondCompletion(1, reply)
  \/ \E reply \in ModeReplies : StreamOpens(1, reply)
  \/ StreamChunk(1)
  \/ FirstStreamEnds(1)
  \/ ToolProcessingResumes(1)
  \/ SecondStreamEnds(1)
  \/ \E throwing \in SUBSET (1..MaxLen) : ProcessCommands(1, throwing)
  \/ Finalize(1)
  \/ Return

\* the call of turn t is suspended at an await or a yield, or about to run
Pending(t) == turn[t].pc \notin {"idle", "done", "failed"}

\* weak fairness of the steps that continue the call: such a step is enabled
\* exactly when the call is pending, and every step taken from such a state
\* is one; a pending continuation is run in the end
Continues == []<>~Pending(1) \/ []<><<Pending(1)>>_vars

SpecLive == Init /\ [][NextLive]_vars /\ Continues

\* SpecAttach: calls that run one after the other and pass attachments
IngestAttached(mode, containerId, userMessage, attachments) ==
  /\ UserMessageCount(sessions) < MaxTurns
  /\ Ingest(1, mode, containerId, userMessage, attachments)

NextAttach ==
  \/ \E mode \in {"buffered", "streamed"}, m \in UserMessages,
        attachments \in AttachmentLists : IngestAttached(mode, "c1", m, attachments)
  \/ SnapshotReturns(1)
  \/ \E reply \in ModeReplies : FirstCompletion(1, reply)
  \/ \E reply \in ModeReplies : SecondCompletion(1, reply)
  \/ \E reply \in ModeReplies : StreamOpens(1, reply)
  \/ StreamChunk(1)
  \/ FirstStreamEnds(1)
  \/ ToolProcessingResumes(1)
  \/ SecondStreamEnds(1)
  \/ \E throwing \in SUBSET (1..MaxLen) : ProcessCommands(1, throwing)
  \/ Finalize(1)
  \/ Return

SpecAttach == Init /\ [][NextAttach]_vars

\* SpecExec: one processDecemberResponse call on any bounded text, or one
\* executeDecemberCommands call on any bounded command list
InitExec ==
  /\ InitStore
  /\ core = CoreText
  /\ \/ \E response \in ResponseTexts :
          exec = [ExecIdle EXCEPT !.pc = "parse", !.entry = "process",
                                  !.response = response]
     \/ \E commands \in CommandLists :
          exec = [ExecIdle EXCEPT !.pc = "execute", !.entry = "execute",
                                  !.commands = commands]
  /\ tool = ToolIdle
  /\ select = SelectIdle

NextExec ==
  \/ ParseResponse
  \/ \E throws \in BOOLEAN : ExecuteCommand(throws)
  \/ ExecuteReturn
  \/ ProcessReturn

SpecExec == InitExec /\ [][NextExec]_vars

\* SpecTool: one processToolCalls call on any bounded text followed by
\* cleanAssistantResponse, or one executeToolCall call
InitTool ==
  /\ InitStore
  /\ core \in {<<>>, CoreText}
  /\ exec = ExecIdle
  /\ \/ \E pieces \in ToolInputs :
          tool = [ToolIdle EXCEPT !.pc = "parse", !.pieces = pieces,
                                  !.text = TextOf(pieces)]
     \/ \E toolCall \in ToolCallDomain :
          tool = [ToolIdle EXCEPT !.pc = "call", !.toolCalls = <<toolCall>>]
  /\ select = SelectIdle

NextTool ==
  \/ ParseToolMatch
  \/ ParseToolReturn
  \/ ExecuteToolCalls
  \/ CleanAssistantResponse
  \/ ExecuteToolCall

SpecTool == InitTool /\ [][NextTool]_vars

\* SpecSelect: one analyzeUserRequest call on any bounded utterance
InitSelect ==
  /\ InitStore
  /\ core = CoreText
  /\ exec = ExecIdle
  /\ tool = ToolIdle
  /\ \E userMessage \in Utterances :
       select = [SelectIdle EXCEPT !.pc = "examples", !.userMessage = userMessage,
                                   !.message = toLowerCase(userMessage)]

NextSelect ==
  \/ SelectExamples
  \/ SelectContext
  \/ ForceCommonErrors
  \/ ForceShadcn

SpecSelect == InitSelect /\ [][NextSelect]_vars

(***************************************************************************)
(* Properties.                                                             *)
(***************************************************************************)
Messages(t) == sessions[turn[t].session].messages

\* what processDecemberResponse makes of a text when no write fails or all do:
\* the cleaned text when it holds commands, the text itself otherwise
Finalized(text) ==
  IF parseDecemberTags(text).hasCommands
  THEN parseDecemberTags(text).cleanedContent ELSE text

\* C1: the Message appends of two turns on one session do not interleave: in
\* the session's list the user Message of every completed turn is followed
\* immediately by the assistant Message of that turn.
C1_AppendsNotInterleaved ==
  \A t \in Turns :
    turn[t].pc = "done" =>
      \E i \in 1..(Len(Messages(t)) - 1) :
        /\ Messages(t)[i] = turn[t].userMsg
        /\ Messages(t)[i + 1] = turn[t].assistantMsg

\* C2: commands are attempted in the order of their elements in the text: a
\* delete element that stands before a write element is attempted before it.
C2_DeleteBeforeWriteInSourceOrder ==
  (exec.entry = "process" /\ exec.pc = "returned") =>
    \A d \in 1..Len(deleteRegex(exec.response)),
       w \in 1..Len(writeRegex(exec.response)) :
      deleteRegex(exec.response)[d].from < writeRegex(exec.response)[w].from =>
        \E i, j \in 1..Len(exec.attempted) :
          /\ i < j
          /\ exec.attempted[i] =
               CommandOfMatch(exec.response, deleteRegex(exec.response)[d])
          /\ exec.attempted[j] =
               CommandOfMatch(exec.response, writeRegex(exec.response)[w])

\* C3: when the augmentation round ran and the second call yielded no content,
\* the finalized assistant Message is the one made from the first-phase text.
C3_EmptySecondReplyKeepsFirstText ==
  \A t \in Turns :
    (turn[t].pc = "done" /\ turn[t].augmented /\ turn[t].secondText = <<>>) =>
      /\ turn[t].firstText # <<>>
      /\ turn[t].assistantMsg.content = Finalized(turn[t].firstText)

\* C4: a turn whose second model call was issued is never lost to a raise: it
\* does not end by an exception once the augmentation round has begun.
C4_SecondCallFailureNotLost ==
  \A t \in Turns : turn[t].augmented => turn[t].pc # "failed"

EventTypes(t) == [i \in 1..Len(turn[t].events) |-> turn[t].events[i].type]

\* C5: the events of a streamed turn are, in this order, one user event,
\* assistant events, at most one tool_processing event followed by assistant
\* events, and one done event, which is the last and is there once the turn
\* has completed.
C5_EventOrder ==
  \A t \in Turns :
    LET types == EventTypes(t)
        n == Len(types)
    IN  /\ turn[t].mode = "streamed" /\ turn[t].pc # "idle" =>
             /\ n >= 1 /\ types[1] = "user"
             /\ \A i \in 2..n : types[i] \in {"assistant", "tool_processing", "done"}
             /\ \A i \in 1..n : types[i] = "done" => i = n
             /\ \A i, j \in 1..n :
                  (types[i] = "tool_processing" /\ types[j] = "tool_processing") => i = j
             /\ (turn[t].pc = "done") <=> (types[n] = "done")
        /\ turn[t].mode # "streamed" => n = 0

C5_Witness ==
  \E t \in Turns :
    /\ turn[t].mode = "streamed" /\ turn[t].pc = "done"
    /\ \E i, j, k \in 1..Len(turn[t].events) :
         /\ i < j /\ j < k
         /\ EventTypes(t)[i] = "assistant"
         /\ EventTypes(t)[j] = "tool_processing"
         /\ EventTypes(t)[k] = "assistant"

\* C6: the Message of the done event, and the one a buffered turn returns, is
\* the assistant Message appended to the session in that turn, and it carries
\* the text as processDecemberResponse left it, made after the commands were
\* extracted and executed.
C6_DoneIsTheAppendedMessage ==
  \A t \in Turns :
    turn[t].pc = "done" =>
      /\ turn[t].extracted
      /\ Messages(t)[Len(Messages(t))] = turn[t].assistantMsg
      /\ turn[t].assistantMsg.role = "assistant"
      /\ turn[t].assistantMsg.content = Finalized(turn[t].accumulated)
      /\ turn[t].mode = "streamed" =>
           turn[t].events[Len(turn[t].events)].data = turn[t].assistantMsg

C6_Witness ==
  \E t \in Turns :
    /\ turn[t].pc = "done" /\ turn[t].mode = "streamed"
    /\ turn[t].augmented
    /\ Len(turn[t].attempted) > 0
    /\ turn[t].assistantMsg.content # turn[t].accumulated
    /\ turn[t].assistantMsg.content # turn[t].firstText

\* C7: the finalized assistant Message holds no well-formed thinking wrapper.
C7_NoThinkingInFinalMessage ==
  \A t \in Turns :
    turn[t].pc = "done" =>
      PairMatches(turn[t].assistantMsg.content, 1, "dec-thinking", "/dec-thinking") = <<>>

SuccessfulWrites(calls) == Len(SelectSeq(calls, LAMBDA c : c.ok))

\* C8: executeDecemberCommands attempts every command once and in list order,
\* whatever failed before, and returns one error for every command that did
\* not succeed.
C8_EveryCommandAttempted ==
  /\ exec.pc \in {"execute", "executed", "returned"} =>
       exec.attempted = SubSeq(exec.commands, 1, exec.i - 1)
  /\ exec.pc \in {"executed", "returned"} =>
       /\ exec.attempted = exec.commands
       /\ Len(exec.errors) = Len(exec.commands) - SuccessfulWrites(exec.calls)
       /\ exec.success <=> (exec.errors = <<>>)

C8_Witness ==
  /\ exec.pc = "returned"
  /\ Len(exec.commands) = MaxLen
  /\ Len(exec.calls) >= 2
  /\ ~exec.calls[1].ok
  /\ exec.calls[2].ok
  /\ exec.attempted = exec.commands

NotImplemented ==
  {"Rename operation not yet implemented", "Delete operation not yet implemented",
   "Add dependency operation not yet implemented"}

\* C9: of the parsed commands, every rename, delete and add-dependency adds one
\* "not implemented" error and calls nothing on the container, and the result is
\* a success exactly when all commands are writes and all of them succeed.
C9_StubsReportNotImplemented ==
  (exec.entry = "process" /\ exec.pc \in {"executed", "returned"}) =>
    /\ Len(exec.calls) =
         Len(SelectSeq(exec.commands, LAMBDA c : c.type = "write"))
    /\ Len(SelectSeq(exec.errors, LAMBDA e : e \in NotImplemented)) =
         Len(SelectSeq(exec.commands, LAMBDA c : c.type # "write"))
    /\ exec.success <=>
         /\ \A i \in 1..Len(exec.commands) : exec.commands[i].type = "write"
         /\ \A i \in 1..Len(exec.calls) : exec.calls[i].ok

C9_Witness ==
  /\ exec.entry = "process" /\ exec.pc = "returned"
  /\ Len(exec.commands) = 2
  /\ exec.attempted[1].type = "write" /\ exec.attempted[2].type = "delete"
  /\ Len(exec.calls) = 1 /\ exec.calls[1].ok
  /\ exec.errors = <<"Delete operation not yet implemented">>
  /\ ~exec.success

\* C10: the calls of getOrCreateChatSession for one container identifier
\* create one session, and every caller holds it.
C10_OneSessionPerContainer ==
  /\ \A t, u \in Turns :
       (turn[t].pc # "idle" /\ turn[u].pc # "idle"
          /\ turn[t].containerId = turn[u].containerId) =>
         turn[t].session = turn[u].session
  /\ \A i, j \in 1..Len(sessions) :
       sessions[i].containerId = sessions[j].containerId => i = j
  /\ \A t \in Turns :
       turn[t].pc # "idle" =>
         /\ sessions[turn[t].session].containerId = turn[t].containerId
         /\ \E i \in 1..Len(chatSessions) : chatSessions[i].ref = turn[t].session

C10_Witness ==
  \E t, u \in Turns :
    /\ t # u
    /\ turn[t].pc = "snapshot" /\ turn[u].pc = "snapshot"
    /\ turn[t].containerId = turn[u].containerId
    /\ turn[t].userMsg.timestamp < turn[u].userMsg.timestamp
    /\ Len(sessions[turn[t].session].messages) = 2

IsPrefix(s, t) == Len(s) <= Len(t) /\ SubSeq(t, 1, Len(s)) = s

\* C11: the message list of a session only grows at its end: in every step the
\* list of every session is a prefix of the list after the step.
C11_MessagesAppendOnly ==
  [][\A i \in 1..Len(sessions) :
       /\ i <= Len(sessions')
       /\ IsPrefix(sessions[i].messages, sessions'[i].messages)]_vars

C11_Witness ==
  \E i \in 1..Len(sessions) :
    /\ Len(sessions[i].messages) = 4
    /\ sessions[i].messages[1].role = "user"
    /\ sessions[i].messages[2].role = "user"
    /\ sessions[i].messages[3].role = "assistant"
    /\ sessions[i].messages[3].turn = 2
    /\ sessions[i].messages[4].turn = 1

\* C12: a turn issues at most two model calls, one after the other: while the
\* first is under way it is the only one; the second is issued in a step in
\* which the whole output of the first has been received and tool calls were
\* found in it; the output of the second issues no further call.
C12_AtMostTwoSequentialModelCalls ==
  /\ [](\A t \in Turns :
          /\ Len(turn[t].requests) <= 2
          /\ turn[t].pc \in {"call1", "stream1", "tool_processing"} =>
               Len(turn[t].requests) = 1
          /\ turn[t].pc \in {"call2", "stream2"} =>
               /\ Len(turn[t].requests) = 2
               /\ parseToolCalls(turn[t].firstText) # <<>>)
  /\ [][\A t \in Turns :
          (Len(turn[t].requests) >= 1
             /\ Len(turn'[t].requests) > Len(turn[t].requests)) =>
            /\ Len(turn[t].requests) = 1
            /\ Len(turn'[t].requests) = 2
            /\ turn[t].pc \in {"call1", "tool_processing"}
            /\ turn[t].stream = <<>>
            /\ turn[t].secondText = <<>>
            /\ parseToolCalls(turn'[t].firstText) # <<>>]_vars

C12_Witness ==
  \E t \in Turns :
    /\ turn[t].pc = "done"
    /\ Len(turn[t].requests) = 2
    /\ parseToolCalls(turn[t].secondText) # <<>>
    /\ Augments(processToolCalls(core, turn[t].secondText))

\* some tool call of the text executes successfully with content
ToolContentLoaded(text) ==
  \E i \in 1..Len(parseToolCalls(text)) :
    /\ executeToolCall(core, parseToolCalls(text)[i]).success
    /\ executeToolCall(core, parseToolCalls(text)[i]).content # <<>>

AfterToolCheck(t) == turn[t].pc \in {"call2", "stream2", "process", "finalize", "done"}

\* C13: past the tool-call check, the second model call was issued exactly when
\* a tool call of the first-phase text executed successfully with content;
\* without it the text handed to command extraction is the first-phase text.
C13_AugmentationIffContentLoaded ==
  \A t \in Turns :
    AfterToolCheck(t) =>
      /\ turn[t].augmented <=> ToolContentLoaded(turn[t].firstText)
      /\ (Len(turn[t].requests) = 2) <=> ToolContentLoaded(turn[t].firstText)
      /\ (~turn[t].augmented /\ turn[t].extracted) =>
           turn[t].accumulated = turn[t].firstText

C13_Witness ==
  \E t \in Turns :
    /\ turn[t].pc = "done"
    /\ parseToolCalls(turn[t].firstText) # <<>>
    /\ ~turn[t].augmented
    /\ Len(turn[t].requests) = 1
    /\ turn[t].accumulated = turn[t].firstText

\* C14: past the tool-call check of a streamed turn, a tool_processing event
\* was emitted exactly when the second model call was issued.
C14_ToolProcessingIffAugmentation ==
  \A t \in Turns :
    (turn[t].mode = "streamed" /\ AfterToolCheck(t)) =>
      ((\E i \in 1..Len(turn[t].events) : turn[t].events[i].type = "tool_processing")
         <=> Len(turn[t].requests) = 2)

\* the assistant events of the first phase (before tool_processing, if any)
\* and of the second phase (after it), by their positions in the events
ToolProcessingAt(t) ==
  LET at == {i \in 1..Len(turn[t].events) : turn[t].events[i].type = "tool_processing"}
  IN  IF at = {} THEN 0 ELSE MinOf(at)

PhaseEvents(t, phase) ==
  {i \in 1..Len(turn[t].events) :
     /\ turn[t].events[i].type = "assistant"
     /\ IF phase = 1 THEN ToolProcessingAt(t) = 0 \/ i < ToolProcessingAt(t)
                     ELSE ToolProcessingAt(t) # 0 /\ i > ToolProcessingAt(t)}

MaxOf(S) == CHOOSE x \in S : \A y \in S : x >= y

\* the events of a phase that is over end with the whole text of the phase
PhaseEndsWith(t, phase, text) ==
  /\ (PhaseEvents(t, phase) = {}) <=> (text = <<>>)
  /\ PhaseEvents(t, phase) # {} =>
       turn[t].events[MaxOf(PhaseEvents(t, phase))].data.content = text

\* C15: in a streamed turn, of two assistant events that follow one another in
\* a phase the second carries the text of the first and more, and when the
\* phase is over its last assistant event carries the whole text of the phase.
C15_AssistantEventsGrow ==
  \A t \in Turns :
    turn[t].mode = "streamed" =>
      /\ \A i, j \in PhaseEvents(t, 1) \cup PhaseEvents(t, 2) :
           (j = i + 1) =>
             /\ IsPrefix(turn[t].events[i].data.content, turn[t].events[j].data.content)
             /\ Len(turn[t].events[i].data.content) < Len(turn[t].events[j].data.content)
      /\ turn[t].pc \in {"tool_processing", "call2", "stream2", "process",
                         "finalize", "done"} =>
           PhaseEndsWith(t, 1, turn[t].firstText)
      /\ (turn[t].augmented /\ turn[t].pc \in {"process", "finalize", "done"}) =>
           PhaseEndsWith(t, 2, turn[t].secondText)

C15_Witness ==
  \E t \in Turns :
    /\ turn[t].mode = "streamed" /\ turn[t].pc = "done"
    /\ Cardinality(PhaseEvents(t, 1)) >= 2
    /\ Cardinality(PhaseEvents(t, 2)) >= 2
    /\ turn[t].events[MaxOf(PhaseEvents(t, 2))].data.content = turn[t].secondText
    /\ turn[t].firstText # turn[t].secondText

\* C16: the commands of a turn are extracted and executed in one step, once,
\* and they are the commands of the text the turn ended with: the second-phase
\* text when it replaced the first-phase text, the first-phase text otherwise;
\* nothing else (the replaced text, the messages of the session) is executed.
C16_CommandsOnceFromFinalText ==
  /\ [](\A t \in Turns :
          /\ turn[t].pc = "done" => turn[t].extracted
          /\ ~turn[t].extracted =>
               turn[t].attempted = <<>> /\ turn[t].calls = <<>>
          /\ turn[t].extracted =>
               /\ turn[t].attempted = parseDecemberTags(turn[t].accumulated).commands
               /\ Len(turn[t].calls) = Cardinality(WritePositions(turn[t].attempted))
               /\ \A i \in 1..Len(turn[t].calls) :
                    \E j \in WritePositions(turn[t].attempted) :
                      /\ turn[t].calls[i].filePath = turn[t].attempted[j].filePath
                      /\ turn[t].calls[i].content = turn[t].attempted[j].content
               /\ turn[t].accumulated \in {turn[t].firstText, turn[t].secondText}
               /\ ~turn[t].augmented => turn[t].accumulated = turn[t].firstText
               /\ (turn[t].augmented /\ turn[t].secondText # <<>>) =>
                    turn[t].accumulated = turn[t].secondText)
  /\ [][\A t \in Turns :
          (turn[t].extracted /\ turn'[t] # TurnIdle) =>
            /\ turn'[t].extracted
            /\ turn'[t].attempted = turn[t].attempted
            /\ turn'[t].calls = turn[t].calls
            /\ turn'[t].accumulated = turn[t].accumulated]_vars

C16_Witness ==
  \E t \in Turns :
    /\ turn[t].pc = "done" /\ turn[t].augmented
    /\ parseDecemberTags(turn[t].firstText).hasCommands
    /\ parseDecemberTags(turn[t].userMsg.content).hasCommands
    /\ Len(Messages(t)) = 4
    /\ Len(turn[t].calls) = 1
    /\ turn[t].calls[1].filePath = "a"
    /\ turn[t].attempted # parseDecemberTags(turn[t].firstText).commands

\* C17: when the text a turn ended with holds a command, the assistant Message
\* carries the cleaned text, whether the commands succeeded or not, and no
\* turn fails once its commands were processed.
C17_CleanedTextWhateverFailed ==
  \A t \in Turns :
    /\ turn[t].extracted => turn[t].pc \in {"finalize", "done"}
    /\ (turn[t].extracted /\ parseDecemberTags(turn[t].accumulated).hasCommands) =>
         /\ turn[t].assistantContent = CleanDecemberTags(turn[t].accumulated)
         /\ turn[t].pc = "done" =>
              turn[t].assistantMsg.content = CleanDecemberTags(turn[t].accumulated)

C17_Witness ==
  \E t \in Turns :
    /\ turn[t].pc = "done"
    /\ Len(turn[t].attempted) = 2
    /\ Len(turn[t].errors) = 2
    /\ Len(turn[t].calls) = 1 /\ ~turn[t].calls[1].ok
    /\ turn[t].assistantMsg.content = <<Txt("ok")>>

\* C18: when a command of a turn failed, the assistant Message of the turn
\* holds an error note: the text of one of the errors.
C18_CommandFailuresReported ==
  \A t \in Turns :
    (turn[t].pc = "done" /\ turn[t].errors # <<>>) =>
      \E i \in 1..Len(turn[t].assistantMsg.content), j \in 1..Len(turn[t].errors) :
        /\ turn[t].assistantMsg.content[i].k = "text"
        /\ turn[t].assistantMsg.content[i].a = turn[t].errors[j]

\* the pieces hold no element that is opened and not closed
WellTerminated(pieces) == \A i \in 1..Len(pieces) : pieces[i].kind # "unterminated"

\* the tool calls the elements of the pieces ask for, by the names they were
\* built from
RECURSIVE RequestedToolCalls(_)
RequestedToolCalls(pieces) ==
  IF pieces = <<>> THEN <<>>
  ELSE (IF Head(pieces).kind = "element" /\ Head(pieces).examples # <<>>
        THEN <<ToolCall(Head(pieces).examples, Head(pieces).context)>>
        ELSE <<>>)
       \o RequestedToolCalls(Tail(pieces))

\* C19: a text whose load_examples elements all have an examples body that
\* lists no name (empty, whitespace, commas), with or without a context body,
\* yields no tool call: nothing is executed and no augmentation round follows.
C19_ContextOnlyYieldsNoToolCall ==
  (/\ tool.pc \in {"execute", "returned"}
   /\ WellTerminated(tool.pieces)
   /\ \A i \in 1..Len(tool.pieces) :
        tool.pieces[i].kind = "element" => tool.pieces[i].examples = <<>>) =>
    /\ tool.toolCalls = <<>>
    /\ tool.results = <<>>
    /\ ~tool.hasToolCalls
    /\ ~Augments(processToolCalls(core, tool.text))

C19_Witness ==
  /\ tool.pc = "returned"
  /\ WellTerminated(tool.pieces)
  /\ \A i \in 1..Len(tool.pieces) :
       tool.pieces[i].kind = "element" => tool.pieces[i].examples = <<>>
  /\ \E i \in 1..Len(tool.pieces) :
       /\ tool.pieces[i].kind = "element"
       /\ tool.pieces[i].context # <<>>
       /\ FirstAt(tool.pieces[i].text, 1, "comma") # 0
  /\ tool.toolCalls = <<>>
  /\ core = CoreText

AllNames(toolCall) ==
  {toolCall.examples[i] : i \in 1..Len(toolCall.examples)}
    \cup {toolCall.context[i] : i \in 1..Len(toolCall.context)}

RECURSIVE ProseOf(_)
ProseOf(pieces) ==
  IF pieces = <<>> THEN <<>>
  ELSE (IF Head(pieces).kind = "element" THEN <<>> ELSE Head(pieces).text)
       \o ProseOf(Tail(pieces))

\* C21: cleanAssistantResponse removes the load_examples elements of a text,
\* also those that list no example, and keeps the rest as it is and in order,
\* but for whitespace at both ends; the text it returns holds no tool call.
C21_CleanRemovesElementsOnly ==
  tool.pc = "cleaned" =>
    /\ WellTerminated(tool.pieces) => tool.cleaned = Trim(ProseOf(tool.pieces))
    /\ parseToolCalls(tool.cleaned) = <<>>

\* the documents a name stands for, looked up in both collections
Lookup(name) ==
  (IF FileExists(ExampleFiles, name) THEN <<Document("examples", name)>> ELSE <<>>)
    \o (IF FileExists(ContextFiles, name) THEN <<Document("context", name)>> ELSE <<>>)

RequestedDocuments(toolCall) ==
  Concat([i \in 1..Len(toolCall.examples \o toolCall.context) |->
            Lookup((toolCall.examples \o toolCall.context)[i])])

\* C22: the content executeToolCall returns for a load_examples call is made
\* of the documents its names stand for in the examples and in the context
\* collection, each under its heading, and of nothing else; it is empty when
\* no document is found.
C22_ContentIsTheDocumentsFound ==
  (tool.pc = "called" /\ tool.toolCalls[1].type = "load_examples") =>
    /\ tool.results[1].success
    /\ SelectSeq(tool.results[1].content, LAMBDA x : x.k = "doc")
         = RequestedDocuments(tool.toolCalls[1])
    /\ \A i \in 1..Len(tool.results[1].content) :
         \/ tool.results[1].content[i].k \in {"doc", "heading", "ws"}
         \/ tool.results[1].content[i]
              \in {Txt("# REQUESTED EXAMPLES"), Txt("# REQUESTED CONTEXT")}
    /\ RequestedDocuments(tool.toolCalls[1]) = <<>> => tool.results[1].content = <<>>

\* C23: executeToolCall returns a result for every tool call; a successful
\* result has content and no error, a failed one an error and no content, and
\* a load_examples call succeeds whether its documents exist or not.
C23_ExactlyOneOfContentAndError ==
  tool.pc \in {"called", "returned", "cleaned"} =>
    /\ Len(tool.results) = Len(tool.toolCalls)
    /\ \A i \in 1..Len(tool.results) :
         /\ tool.results[i].success =>
              tool.results[i].hasContent /\ ~tool.results[i].hasError
         /\ ~tool.results[i].success =>
              /\ tool.results[i].hasError /\ ~tool.results[i].hasContent
              /\ tool.results[i].error # ""
         /\ tool.toolCalls[i].type = "load_examples" => tool.results[i].success

C23_Witness ==
  /\ tool.pc = "called"
  /\ tool.toolCalls[1] = ToolCall(<<Name("bar.md")>>, <<Name("nope.md")>>)
  /\ tool.results[1].success
  /\ core = <<>>
  /\ tool.results[1].content = <<>>

\* an opening tag of a kind with a closing tag of a kind somewhere after it
HasPair(s, open, close) ==
  \E p \in 1..Len(s) : \E q \in (p + 1)..Len(s) : s[p].k = open /\ s[q].k = close

NoCommandElement(s) ==
  /\ ~HasPair(s, "dec-write", "/dec-write")
  /\ \A p \in 1..Len(s) : s[p].k \notin {"dec-rename", "dec-delete", "dec-add-dependency"}

NoToolElement(s) == loadExamplesRegex(s, 1) = <<>>

NoWrapperElement(s) ==
  /\ ~HasPair(s, "dec-code", "/dec-code")
  /\ ~HasPair(s, "dec-thinking", "/dec-thinking")
  /\ ~HasPair(s, "dec-error", "/dec-error")
  /\ ~HasPair(s, "dec-success", "/dec-success")

Parsed == exec.entry = "process" /\ exec.pc # "parse"

\* C24 as stated: a text without a command element and without a tool
\* element is parsed to no command and cleaned to itself, trimmed.
C24_NoElementNoStripping ==
  (Parsed /\ NoCommandElement(exec.response) /\ NoToolElement(exec.response)) =>
    /\ exec.commands = <<>>
    /\ ~exec.hasCommands
    /\ exec.cleanedContent = Trim(exec.response)

\* C24: a text without a command element, without a tool element and without
\* a wrapper element (dec-code, dec-thinking, dec-error, dec-success) is
\* parsed to no command and cleaned to itself, trimmed.
C24_NoElementNoWrapperNoStripping ==
  (Parsed /\ NoCommandElement(exec.response) /\ NoToolElement(exec.response)
     /\ NoWrapperElement(exec.response)) =>
    /\ exec.commands = <<>>
    /\ ~exec.hasCommands
    /\ exec.cleanedContent = Trim(exec.response)

C24_Witness ==
  /\ Parsed
  /\ exec.response = <<Ws, Tag("dec-thinking"), Txt("x")>>
  /\ exec.cleanedContent = <<Tag("dec-thinking"), Txt("x")>>
  /\ ~exec.hasCommands

\* the opening write tags that start a write element: one with a closing tag
\* after it that stands in no element started before it
StartsWriteElement(s, p) ==
  /\ s[p].k = "dec-write"
  /\ \E q \in (p + 1)..Len(s) : s[q].k = "/dec-write"
  /\ \A o \in 1..(p - 1) :
       s[o].k = "dec-write" => \E q \in (o + 1)..(p - 1) : s[q].k = "/dec-write"

\* the Write commands of the write elements from position p on
RECURSIVE WriteElementCommands(_, _)
WriteElementCommands(s, p) ==
  IF p > Len(s) THEN <<>>
  ELSE (IF StartsWriteElement(s, p)
        THEN <<WriteCommand(s[p].a,
                 Trim(SubSeq(s, p + 1,
                        MinOf({q \in (p + 1)..Len(s) : s[q].k = "/dec-write"}) - 1)))>>
        ELSE <<>>)
       \o WriteElementCommands(s, p + 1)

\* C25: the Write commands parsed from a text are those of its write
\* elements, one each, with the path and the trimmed body, also inside a
\* wrapper; and the cleaned text, parsed again, yields no command.
C25_WriteElementsOnceAndCleanedHasNone ==
  Parsed =>
    /\ SelectSeq(parseDecemberTags(exec.response).commands, LAMBDA c : c.type = "write")
         = WriteElementCommands(exec.response, 1)
    /\ parseDecemberTags(exec.cleanedContent).commands = <<>>

\* the Messages of a turn's session that precede the turn's user Message
PrecedingMessages(t) ==
  LET messages == sessions[turn[t].session].messages
      p == CHOOSE i \in 1..Len(messages) :
             /\ messages[i] = turn[t].userMsg
             /\ \A j \in (i + 1)..Len(messages) : messages[j] # turn[t].userMsg
  IN  SubSeq(messages, 1, p - 1)

\* C26: the history of the second model call is the Messages that precede the
\* turn's user Message, the user message once, and the stripped first-phase
\* text as an assistant entry when it is not empty, whatever other turns
\* have appended to the session in the meantime.
C26_SecondCallHistory ==
  \A t \in Turns : \A i \in 1..Len(turn[t].requests) :
    turn[t].requests[i].phase = 2 =>
      turn[t].requests[i].messages =
        History(PrecedingMessages(t))
          \o <<[role |-> "user", content |-> turn[t].userMsg.content]>>
          \o (IF cleanAssistantResponse(turn[t].firstText) # <<>>
              THEN <<[role |-> "assistant",
                      content |-> cleanAssistantResponse(turn[t].firstText)]>>
              ELSE <<>>)

\* C27: a buffered and a streamed turn with the same user message, the same
\* core instructions and the same model outputs finalize the same assistant
\* content and execute the same commands in the same order.
C27_BufferedAndStreamedAgree ==
  (/\ turn[1].pc = "done" /\ turn[1].mode = "buffered"
   /\ turn[2].pc = "done" /\ turn[2].mode = "streamed"
   /\ turn[1].userMsg.content = turn[2].userMsg.content
   /\ turn[1].outputs = turn[2].outputs) =>
    /\ turn[1].assistantMsg.content = turn[2].assistantMsg.content
    /\ turn[1].attempted = turn[2].attempted

\* the utterance holds the word, whatever the case of its letters
Mentions(userMessage, word) == includes(toLowerCase(userMessage), word)

InList(list, name) == \E i \in 1..Len(list) : list[i] = name

\* the documents a table selects for an utterance
TableSelects(table, userMessage) ==
  {Name(table[i].filename) : i \in {j \in 1..Len(table) :
     \E k \in 1..Len(table[j].triggers) : Mentions(userMessage, table[j].triggers[k])}}

\* C30: common_errors.md is in the context list whenever the utterance
\* mentions error, bug or issue, and shadcn_documentation.md whenever it
\* mentions component, ui or button, whether the table selected them or not;
\* every context document the table selected is still in the list.
C30_ForcedInclusion ==
  select.pc = "returned" =>
    /\ (\/ Mentions(select.userMessage, <<"e", "r", "r", "o", "r">>)
        \/ Mentions(select.userMessage, <<"b", "u", "g">>)
        \/ Mentions(select.userMessage, <<"i", "s", "s", "u", "e">>))
         => InList(select.context, Name("common_errors.md"))
    /\ (\/ Mentions(select.userMessage, <<"c", "o", "m", "p", "o", "n", "e", "n", "t">>)
        \/ Mentions(select.userMessage, <<"u", "i">>)
        \/ Mentions(select.userMessage, <<"b", "u", "t", "t", "o", "n">>))
         => InList(select.context, Name("shadcn_documentation.md"))
    /\ \A name \in TableSelects(contextTriggers, select.userMessage) :
         InList(select.context, name)

C30_Witness ==
  /\ select.pc = "returned"
  /\ select.userMessage = <<"b", "u", "i", "l", "d", " ", "B", "U", "G">>
  /\ Name("shadcn_documentation.md") \notin TableSelects(contextTriggers, select.userMessage)
  /\ select.context = <<Name("common_errors.md"), Name("shadcn_documentation.md")>>

\* the part of a system prompt that is instructions: what is left without
\* the codebase section
InstructionText(system) ==
  SelectSeq(system, LAMBDA x :
    x \notin {Ws, Txt("Current codebase structure and content:"), CodeContext})

\* C28: when the instruction documents cannot be loaded, the turn goes on and
\* the system prompt of its requests still holds instruction text.
C28_FallbackInstructions ==
  \A t \in Turns :
    core = <<>> =>
      /\ turn[t].pc \notin {"idle", "snapshot", "failed"} => Len(turn[t].requests) > 0
      /\ \A i \in 1..Len(turn[t].requests) :
           InstructionText(turn[t].requests[i].system) # <<>>

\* an assistant Message is appended to session s in this step
AssistantAppended(s) ==
  /\ Len(sessions'[s].messages) > Len(sessions[s].messages)
  /\ sessions'[s].messages[Len(sessions'[s].messages)].role = "assistant"

\* the step is the finalization of a turn on session s
Finalizes(s) ==
  \E t \in Turns :
    /\ turn[t].pc = "finalize" /\ turn'[t].pc = "done"
    /\ turn[t].session = s
    /\ turn[t].extracted
    /\ sessions'[s].messages = Append(sessions[s].messages, turn'[t].assistantMsg)
    /\ turn'[t].assistantMsg.content = turn[t].assistantContent

\* a turn that failed or was cancelled has left no assistant Message
NothingSavedOnFailure ==
  \A t \in Turns :
    turn[t].pc \in {"failed", "cancelled"} =>
      /\ \A i \in 1..Len(Messages(t)) : Messages(t)[i].role # "assistant"
      /\ sessions[turn[t].session].updatedAt = sessions[turn[t].session].createdAt

\* C29: a turn that is cancelled or whose model call fails appends no
\* assistant Message and leaves the update timestamp of the session as it
\* was; an assistant Message is appended, and the session stamped, only by
\* the finalization of a turn.
C29_OnlyFinalizedTurnsAreSaved ==
  /\ []NothingSavedOnFailure
  /\ [][\A s \in 1..Len(sessions) :
          (AssistantAppended(s) \/ sessions'[s].updatedAt # sessions[s].updatedAt)
            => Finalizes(s)]_vars

C29_Witness ==
  /\ turn[1].pc = "cancelled"
  /\ turn[1].assistantContent # <<>>
  /\ now > sessions[turn[1].session].updatedAt
  /\ Len(Messages(1)) = 1

NoDuplicate(list) ==
  \A i \in 1..Len(list) : \A j \in 1..Len(list) : list[i] = list[j] => i = j

TableNames(table) == {Name(table[i].filename) : i \in 1..Len(table)}

\* C31: the examples list and the context list of a selection hold no name
\* twice and only names of their trigger table, and every utterance that is
\* equal to the analysed one but for the case of its letters is given the
\* same selection.
C31_SelectionIsDeduplicatedAndCaseBlind ==
  select.pc = "returned" =>
    /\ NoDuplicate(select.examples) /\ NoDuplicate(select.context)
    /\ \A i \in 1..Len(select.examples) :
         select.examples[i] \in TableNames(exampleTriggers)
    /\ \A i \in 1..Len(select.context) :
         select.context[i] \in TableNames(contextTriggers)
    /\ \A other \in Utterances :
         (Len(other) = Len(select.userMessage)
            /\ toLowerCase(other) = toLowerCase(select.userMessage)) =>
           analyzeUserRequest(other)
             = [examples |-> select.examples, context |-> select.context]

C31_Witness ==
  /\ select.pc = "returned"
  /\ select.userMessage = <<"F", "i", "x", " ", "B", "U", "G">>
  /\ analyzeUserRequest(<<"f", "i", "x", " ", "b", "u", "g">>)
       = [examples |-> select.examples, context |-> select.context]
  /\ select.examples = <<Name("error_handling_examples.md")>>
  /\ select.context = <<Name("common_errors.md")>>

\* C33: every message of the comprehensive test is given at least one
\* example document.
C33_TestMessagesSelectExamples ==
  (select.pc = "returned" /\ select.userMessage \in testMessages) =>
    Len(select.examples) > 0

\* the eight rules applied to the tags the text has before any replacement
RulesOnSourceTags(s) ==
  LET r1 == ReplacePairs(s, 1, "dec-write", "/dec-write", FALSE)
      r2 == ReplaceSingles(r1, 1, "dec-rename")
      r3 == ReplaceSingles(r2, 1, "dec-delete")
      r4 == ReplaceSingles(r3, 1, "dec-add-dependency")
      r5 == ReplacePairs(r4, 1, "dec-code", "/dec-code", TRUE)
      r6 == ReplacePairs(r5, 1, "dec-thinking", "/dec-thinking", FALSE)
      r7 == ReplacePairs(r6, 1, "dec-error", "/dec-error", TRUE)
  IN  ReplacePairs(r7, 1, "dec-success", "/dec-success", TRUE)

\* C32: a text inside a dec-code, dec-error or dec-success wrapper is cleaned
\* to what it is cleaned to without the wrapper, and the cleaned output of a
\* text is what the rules leave of the elements the text holds: what a rule
\* has left is matched by no later rule.
C32_WrappersUnwrappedNothingRematched ==
  Parsed =>
    /\ exec.response \in WrappedTexts =>
         exec.cleanedContent
           = CleanDecemberTags(SubSeq(exec.response, 2, Len(exec.response) - 1))
    /\ exec.cleanedContent = Lex(Trim(RulesOnSourceTags(exec.response)))

\* C34: a turn that failed has left no user Message in its session: the
\* list does not end with a user Message, and in the history of every first
\* request each user message before the last one is followed by its reply.
C34_FailedTurnLeavesNoUserMessage ==
  \A t \in Turns :
    /\ turn[t].pc = "failed" =>
         \/ Messages(t) = <<>>
         \/ Messages(t)[Len(Messages(t))].role # "user"
    /\ \A r \in 1..Len(turn[t].requests) :
         turn[t].requests[r].phase = 1 =>
           \A i \in 1..(Len(turn[t].requests[r].messages) - 1) :
             turn[t].requests[r].messages[i].role = "user" =>
               turn[t].requests[r].messages[i + 1].role = "assistant"

\* C35: the assistant Message a turn finalizes holds no load_examples
\* element.
C35_NoToolElementInFinalMessage ==
  \A t \in Turns :
    turn[t].pc = "done" => loadExamplesRegex(turn[t].assistantMsg.content, 1) = <<>>

\* C36: the session a call of getOrCreateChatSession has returned for a
\* container identifier is the one a call for that identifier returns from
\* then on.
C36_SessionOfContainerIsStable ==
  \A t \in Turns :
    turn[t].pc # "idle" => FindSession(turn[t].containerId) = turn[t].session

\* C37: the identifiers of the Messages of one Session are pairwise distinct.
C37_MessageIdsAreDistinct ==
  \A r \in 1..Len(sessions) :
    \A i, j \in 1..Len(sessions[r].messages) :
      sessions[r].messages[i].id = sessions[r].messages[j].id => i = j

\* the parts of an entry's content that come from Attachments
AttachmentParts(content) ==
  SelectSeq(content, LAMBDA token : token.k \in {"url", "document"})

\* the entry of the user message a request ends with
CurrentUserEntry(request) ==
  LET users == {i \in 1..Len(request.messages) : request.messages[i].role = "user"}
  IN  request.messages[CHOOSE i \in users : \A j \in users : j <= i]

\* C38: in the second model call of a turn the entry of the current user
\* message carries the Attachment parts it carried in the first model call.
C38_SecondCallKeepsAttachments ==
  \A t \in Turns :
    Len(turn[t].requests) = 2 =>
      AttachmentParts(CurrentUserEntry(turn[t].requests[2]).content)
        = AttachmentParts(CurrentUserEntry(turn[t].requests[1]).content)

\* the commands that the elements of a text stand for when they are written
\* as the instruction documents write them
TaughtCommands(s) ==
  {RenameCommand(s[i].a, s[i].b) :
     i \in {j \in 1..Len(s) : s[j].k = TaughtRenameTag("", "").k}}
    \cup {DependencyCommand(s[i + 1].a) :
            i \in {j \in 1..(Len(s) - 2) :
                     SubSeq(s, j, j + 2) = TaughtDependency(s[j + 1].a)}}

\* C39: an element written as the instruction documents write it is parsed
\* to its command, and nothing of it is left in the cleaned text.
C39_TaughtFormsAreParsed ==
  Parsed =>
    /\ \A c \in TaughtCommands(exec.response) :
         \E i \in 1..Len(exec.commands) : exec.commands[i] = c
    /\ TaughtCommands(exec.cleanedContent) = {}

\* the assistant Messages that follow the user Message of turn t in its session
AssistantMessagesOf(t) ==
  LET messages == sessions[turn[t].session].messages
      last == CHOOSE i \in 1..Len(messages) :
                /\ messages[i] = turn[t].userMsg
                /\ \A j \in (i + 1)..Len(messages) : messages[j] # turn[t].userMsg
  IN  SelectSeq(SubSeq(messages, last + 1, Len(messages)),
                LAMBDA msg : msg.role = "assistant")

\* turn t is finalized: one assistant Message is appended and, in streamed
\* mode, the last event is done
TurnFinalized(t) ==
  /\ turn[t].pc = "done"
  /\ Len(AssistantMessagesOf(t)) = 1
  /\ turn[t].mode = "streamed" =>
       /\ turn[t].events # <<>>
       /\ turn[t].events[Len(turn[t].events)].type = "done"

\* C40: when the snapshot returns and no model call raises, every turn that
\* was started is finalized in the end: it has appended exactly one assistant
\* Message and, in streamed mode, emitted done.
C40_StartedTurnsAreFinalized ==
  \A t \in Turns : (turn[t].pc = "snapshot") ~> TurnFinalized(t)

\* a streamed turn with a second call and a write that raised is finalized
C40_Witness ==
  \E t \in Turns :
    /\ TurnFinalized(t)
    /\ turn[t].mode = "streamed"
    /\ turn[t].augmented
    /\ turn[t].errors # <<>>

====
